---- MODULE Spec2Model ----
(***************************************************************************)
(* FIX (Functional Interactions): Trigger -> Event -> Action dispatch.     *)
(*                                                                         *)
(* Attribute names are sequences of tokens: a word, or the separator ":".  *)
(* "trigger:click:data:id" is <<"trigger", ":", "click", ":", "data", ":", *)
(* "id">>.  split, startsWith and replace work on that representation.     *)
(***************************************************************************)
EXTENDS Integers, Sequences, FiniteSets, TLC

VARIABLES tree, triggerTypes, actionTypes, events, handlers, triggers,
          actions, warnings, scans, invocations, uncaught, load,
          form, submissions, api, occurrences, page, slider

\* the dispatch engine's state
engineVars == <<tree, triggerTypes, actionTypes, events, handlers, triggers,
                actions, warnings, scans, invocations, uncaught>>

\* the state of the page around it
formVars == <<form, submissions>>

componentVars == <<formVars, api, occurrences, page, slider>>

hostVars == <<load, componentVars>>

vars == <<engineVars, hostVars>>

(***************************************************************************)
(* Bounds                                                                  *)
(***************************************************************************)
MaxElements == 2

MaxAttrs == 3

MaxProgrammatic == 1

MaxHandlers == 2

MaxInvocations == 2

(***************************************************************************)
(* String helpers                                                          *)
(***************************************************************************)
COLON == ":"

\* String.prototype.startsWith
StartsWith(s, p) ==
    /\ Len(s) >= Len(p)
    /\ SubSeq(s, 1, Len(p)) = p

\* s with its first Len(p) tokens removed (replace(p, '') when s starts with p)
StripPrefix(s, p) == SubSeq(s, Len(p) + 1, Len(s))

\* String.prototype.split(':'): the words between separators, "" for an empty one
RECURSIVE SplitFrom(_, _, _)
SplitFrom(s, i, cur) ==
    IF i > Len(s) THEN <<cur>>
    ELSE IF s[i] = COLON THEN <<cur>> \o SplitFrom(s, i + 1, "")
    ELSE SplitFrom(s, i + 1, s[i])

Split(s) == SplitFrom(s, 1, "")

\* the template literal `${ns}:${type}`
Template(ns, type) == IF type = "" THEN <<ns, COLON>> ELSE <<ns, COLON, type>>


\* parts[k] of a JavaScript array (0-based); undefined past its end
Undefined == "#undefined"

At(parts, k) == IF k + 1 <= Len(parts) THEN parts[k + 1] ELSE Undefined

(***************************************************************************)
(* Names the engine and the registered implementations use                 *)
(***************************************************************************)
NsTrigger == "trigger"

NsAction == "action"

DataSegment == "data"

NoElement == 0

\* a registry state threaded through the scan
Registry(ev, hs, ts, as, ws) ==
    [events |-> ev, handlers |-> hs, triggers |-> ts, actions |-> as, warnings |-> ws]

(***************************************************************************)
(* Type Registry                                                           *)
(***************************************************************************)
\* FIXRegistry.registerTrigger / registerAction: Map.set(name, ctor)
registerType(types, name, ctor) ==
    [n \in (DOMAIN types) \cup {name} |-> IF n = name THEN ctor ELSE types[n]]

(***************************************************************************)
(* Event Registry and event handlers                                       *)
(***************************************************************************)
\* EventRegistry.hasEvent
hasEvent(ev, eventName) == eventName \in DOMAIN ev

\* new EventDefault(name) / new EventSequential(name): no actions yet
NewHandler(kind, eventName) ==
    [kind |-> kind, eventName |-> eventName, actions |-> <<>>]

\* the other reading of "dropping its action list": a registration that also
\* empties the list of the handler it replaces
registerEventClearingOld(reg, eventName, handler) ==
    LET hid == Len(reg.handlers) + 1
        old == IF eventName \in DOMAIN reg.events THEN {reg.events[eventName]} ELSE {}
    IN  [reg EXCEPT !.handlers = Append([h \in 1..Len(@) |->
                                           IF h \in old THEN [@[h] EXCEPT !.actions = <<>>]
                                           ELSE @[h]], handler),
                    !.events = [n \in (DOMAIN @) \cup {eventName} |->
                                   IF n = eventName THEN hid ELSE @[n]]]

\* EventRegistry.registerEvent: the map entry for the name is set to the handler
registerEvent(reg, eventName, handler) ==
    LET hid == Len(reg.handlers) + 1
    IN  [reg EXCEPT !.handlers = Append(@, handler),
                    !.events = [n \in (DOMAIN @) \cup {eventName} |->
                                   IF n = eventName THEN hid ELSE @[n]]]

\* a lookup that keeps answering with the first handler registered for the name
getEventFirstRegistered(reg, eventName) ==
    CHOOSE h \in 1..Len(reg.handlers) :
       /\ reg.handlers[h].eventName = eventName
       /\ \A g \in 1..(h - 1) : reg.handlers[g].eventName # eventName

\* EventRegistry.getEvent: the handler now registered under the name
getEvent(reg, eventName) == reg.events[eventName]

\* EventBase.registerAction: push onto the handler's own list
registerAction(reg, hid, aid) ==
    [reg EXCEPT !.handlers[hid].actions = Append(@, aid)]

\* an ensureEvent without the hasEvent test: it installs a new handler every time
ensureEventReplacing(reg, eventName) ==
    registerEvent(reg, eventName, NewHandler("default", eventName))

\* an ensureEvent that keeps only default handlers and replaces the others
ensureEventUnlessDefault(reg, eventName) ==
    IF hasEvent(reg.events, eventName)
       /\ reg.handlers[reg.events[eventName]].kind = "default"
    THEN reg
    ELSE registerEvent(reg, eventName, NewHandler("default", eventName))

\* ensureEvent: create the event with a default handler only when it is absent
ensureEvent(reg, eventName) ==
    IF ~hasEvent(reg.events, eventName)
    THEN registerEvent(reg, eventName, NewHandler("default", eventName))
    ELSE reg

(***************************************************************************)
(* Tree scan: initializeFIX                                                *)
(***************************************************************************)
\* every attribute of every element, in document order then attribute order
RECURSIVE AllAttributes(_, _, _)
AllAttributes(t, i, j) ==
    IF i > Len(t) THEN <<>>
    ELSE IF j > Len(t[i].attrs) THEN AllAttributes(t, i + 1, 1)
    ELSE <<[element |-> i, index |-> j, name |-> t[i].attrs[j].name,
            value |-> t[i].attrs[j].value]>> \o AllAttributes(t, i, j + 1)

\* a trigger test without the exclusion of data attributes
IsTriggerAttributeWithData(attr) ==
    /\ StartsWith(attr.name, <<NsTrigger, COLON>>)
    /\ Len(Split(attr.name)) >= 2

\* the test the scan applies to an attribute before pushing it on triggerElements
IsTriggerAttribute(attr) ==
    /\ StartsWith(attr.name, <<NsTrigger, COLON>>)
    /\ Len(Split(attr.name)) >= 2
    /\ At(Split(attr.name), 2) # DataSegment

\* the test the scan applies to an attribute before pushing it on actionElements
IsActionAttribute(attr) ==
    /\ StartsWith(attr.name, <<NsAction, COLON>>)
    /\ Len(Split(attr.name)) >= 2

\* the entry pushed for a classified attribute
Found(ns, attr) ==
    [element |-> attr.element, index |-> attr.index,
     attribute |-> Template(ns, At(Split(attr.name), 1)),
     eventName |-> attr.value]

RECURSIVE Collect(_, _, _)
Collect(attrs, k, ns) ==
    IF k > Len(attrs) THEN <<>>
    ELSE (IF (IF ns = NsTrigger THEN IsTriggerAttribute(attrs[k])
                                ELSE IsActionAttribute(attrs[k]))
          THEN <<Found(ns, attrs[k])>> ELSE <<>>) \o Collect(attrs, k + 1, ns)

triggerElements(t) == Collect(AllAttributes(t, 1, 1), 1, NsTrigger)

actionElements(t) == Collect(AllAttributes(t, 1, 1), 1, NsAction)

\* an init that attaches the listener whatever the element is
TriggerInitAnyElement(ctor, t, element) == TRUE

\* TriggerClick.init / TriggerSubmit.init: whether a listener gets attached
TriggerInit(ctor, t, element) ==
    IF ctor = "TriggerSubmit" THEN t[element].tag = "form" ELSE TRUE

\* a "Process triggers" iteration that leaves the event to the actions
ProcessTriggerNoEnsure(reg, tTypes, t, e, scan) ==
    LET triggerType == At(Split(e.attribute), 1)
    IN  IF triggerType \in DOMAIN tTypes
        THEN [reg EXCEPT !.triggers = Append(@,
                     [element |-> e.element, eventName |-> e.eventName,
                      attribute |-> e.attribute, ctor |-> tTypes[triggerType],
                      listening |-> TriggerInit(tTypes[triggerType], t, e.element),
                      scan |-> scan, index |-> e.index])]
        ELSE [reg EXCEPT !.warnings = Append(@, [ns |-> NsTrigger, type |-> triggerType])]

\* one iteration of the "Process triggers" loop
ProcessTrigger(reg, tTypes, t, e, scan) ==
    LET triggerType == At(Split(e.attribute), 1)
    IN  IF triggerType \in DOMAIN tTypes
        THEN LET r == ensureEvent(reg, e.eventName)
             IN  [r EXCEPT !.triggers = Append(@,
                     [element |-> e.element, eventName |-> e.eventName,
                      attribute |-> e.attribute, ctor |-> tTypes[triggerType],
                      listening |-> TriggerInit(tTypes[triggerType], t, e.element),
                      scan |-> scan, index |-> e.index])]
        ELSE [reg EXCEPT !.warnings = Append(@, [ns |-> NsTrigger, type |-> triggerType])]

\* a "Process actions" iteration that creates the event before looking the type up
ProcessActionEager(reg, aTypes, e, scan) ==
    LET actionType == At(Split(e.attribute), 1)
        r          == ensureEvent(reg, e.eventName)
    IN  IF actionType \in DOMAIN aTypes
        THEN LET aid == Len(r.actions) + 1
                 r2  == [r EXCEPT !.actions = Append(@,
                           [element |-> e.element, attribute |-> e.attribute,
                            ctor |-> aTypes[actionType], eventName |-> e.eventName,
                            inits |-> 1, scan |-> scan, index |-> e.index])]
             IN  registerAction(r2, r2.events[e.eventName], aid)
        ELSE [r EXCEPT !.warnings = Append(@, [ns |-> NsAction, type |-> actionType])]

\* one iteration of the "Process actions" loop
ProcessAction(reg, aTypes, e, scan) ==
    LET actionType == At(Split(e.attribute), 1)
    IN  IF actionType \in DOMAIN aTypes
        THEN LET r   == ensureEvent(reg, e.eventName)
                 aid == Len(r.actions) + 1
                 r2  == [r EXCEPT !.actions = Append(@,
                           [element |-> e.element, attribute |-> e.attribute,
                            ctor |-> aTypes[actionType], eventName |-> e.eventName,
                            inits |-> 1, scan |-> scan, index |-> e.index])]
             IN  IF hasEvent(r2.events, e.eventName)
                 THEN registerAction(r2, r2.events[e.eventName], aid)
                 ELSE r2
        ELSE [reg EXCEPT !.warnings = Append(@, [ns |-> NsAction, type |-> actionType])]

RECURSIVE ProcessTriggers(_, _, _, _, _, _)
ProcessTriggers(reg, tTypes, t, found, k, scan) ==
    IF k > Len(found) THEN reg
    ELSE ProcessTriggers(ProcessTrigger(reg, tTypes, t, found[k], scan),
                         tTypes, t, found, k + 1, scan)

RECURSIVE ProcessActions(_, _, _, _, _)
ProcessActions(reg, aTypes, found, k, scan) ==
    IF k > Len(found) THEN reg
    ELSE ProcessActions(ProcessAction(reg, aTypes, found[k], scan),
                        aTypes, found, k + 1, scan)

\* an initializer that walks the collected action attributes last to first
initializeFIXReversed(reg, tTypes, aTypes, t, scan) ==
    LET found == actionElements(t)
    IN  ProcessActions(
            ProcessTriggers(reg, tTypes, t, triggerElements(t), 1, scan),
            aTypes, [k \in 1..Len(found) |-> found[Len(found) + 1 - k]], 1, scan)

\* an initializer that resolves both kinds of binding in one map of types
initializeFIXOneMap(reg, tTypes, aTypes, t, scan) ==
    LET types == [n \in (DOMAIN tTypes) \cup (DOMAIN aTypes) |->
                     IF n \in DOMAIN tTypes THEN tTypes[n] ELSE aTypes[n]]
    IN  ProcessActions(
            ProcessTriggers(reg, types, t, triggerElements(t), 1, scan),
            types, actionElements(t), 1, scan)

\* an initializer guarded against a second run
initializeFIXOnce(reg, tTypes, aTypes, t, scan) ==
    IF scan > 1 THEN reg
    ELSE ProcessActions(
             ProcessTriggers(reg, tTypes, t, triggerElements(t), 1, scan),
             aTypes, actionElements(t), 1, scan)

\* initializeFIX: collect, then process all triggers, then all actions
initializeFIX(reg, tTypes, aTypes, t, scan) ==
    ProcessActions(
        ProcessTriggers(reg, tTypes, t, triggerElements(t), 1, scan),
        aTypes, actionElements(t), 1, scan)


(***************************************************************************)
(* Tree scan with a binding whose constructor or init() throws             *)
(***************************************************************************)
\* the binding that throws: the k-th collected trigger or action, in its
\* constructor or in init(); wired tells whether init() had attached the
\* listener when it threw
NoFault == [ns |-> "none", k |-> 0, at |-> "none", wired |-> FALSE]

\* what the iteration of a throwing trigger has done when the exception leaves it
TriggerThrown(reg, tTypes, e, scan, fault) ==
    LET r == ensureEvent(reg, e.eventName)
    IN  IF fault.at = "constructor" THEN r
        ELSE [r EXCEPT !.triggers = Append(@,
                 [element |-> e.element, eventName |-> e.eventName,
                  attribute |-> e.attribute, ctor |-> tTypes[At(Split(e.attribute), 1)],
                  listening |-> fault.wired,
                  scan |-> scan, index |-> e.index])]

\* what the iteration of a throwing action has done when the exception leaves it
ActionThrown(reg, aTypes, e, scan, fault) ==
    LET r == ensureEvent(reg, e.eventName)
    IN  IF fault.at = "constructor" THEN r
        ELSE [r EXCEPT !.actions = Append(@,
                 [element |-> e.element, attribute |-> e.attribute,
                  ctor |-> aTypes[At(Split(e.attribute), 1)], eventName |-> e.eventName,
                  inits |-> 1, scan |-> scan, index |-> e.index])]

Throws(fault, ns, k, types, e) ==
    fault.ns = ns /\ fault.k = k /\ At(Split(e.attribute), 1) \in DOMAIN types

\* a trigger loop whose iterations catch what the binding throws and go on
RECURSIVE ProcessTriggersContained(_, _, _, _, _, _, _)
ProcessTriggersContained(reg, tTypes, t, found, k, scan, fault) ==
    IF k > Len(found) THEN [reg |-> reg, threw |-> FALSE]
    ELSE ProcessTriggersContained(
             IF Throws(fault, NsTrigger, k, tTypes, found[k])
             THEN TriggerThrown(reg, tTypes, found[k], scan, fault)
             ELSE ProcessTrigger(reg, tTypes, t, found[k], scan),
             tTypes, t, found, k + 1, scan, fault)

\* triggerElements.forEach(...): an exception thrown by an iteration ends the loop
RECURSIVE ProcessTriggersThrowing(_, _, _, _, _, _, _)
ProcessTriggersThrowing(reg, tTypes, t, found, k, scan, fault) ==
    IF k > Len(found) THEN [reg |-> reg, threw |-> FALSE]
    ELSE IF Throws(fault, NsTrigger, k, tTypes, found[k])
         THEN [reg |-> TriggerThrown(reg, tTypes, found[k], scan, fault), threw |-> TRUE]
         ELSE ProcessTriggersThrowing(ProcessTrigger(reg, tTypes, t, found[k], scan),
                                      tTypes, t, found, k + 1, scan, fault)

\* actionElements.forEach(...): an exception thrown by an iteration ends the loop
RECURSIVE ProcessActionsThrowing(_, _, _, _, _, _)
ProcessActionsThrowing(reg, aTypes, found, k, scan, fault) ==
    IF k > Len(found) THEN [reg |-> reg, threw |-> FALSE]
    ELSE IF Throws(fault, NsAction, k, aTypes, found[k])
         THEN [reg |-> ActionThrown(reg, aTypes, found[k], scan, fault), threw |-> TRUE]
         ELSE ProcessActionsThrowing(ProcessAction(reg, aTypes, found[k], scan),
                                     aTypes, found, k + 1, scan, fault)

\* initializeFIX when a binding throws: nothing catches, the action loop is not
\* reached after a throwing trigger
initializeFIXThrowing(reg, tTypes, aTypes, t, scan, fault) ==
    LET done == ProcessTriggersThrowing(reg, tTypes, t, triggerElements(t), 1, scan, fault)
    IN  IF done.threw THEN done
        ELSE ProcessActionsThrowing(done.reg, aTypes, actionElements(t), 1, scan, fault)

(***************************************************************************)
(* Programmatic registration                                               *)
(***************************************************************************)
\* registerProgrammaticAction(type, eventName, ctor): an action with no element
registerProgrammaticAction(reg, type, eventName, ctor) ==
    LET aid == Len(reg.actions) + 1
        r   == [reg EXCEPT !.actions = Append(@,
                  [element |-> NoElement, attribute |-> Template(NsAction, type),
                   ctor |-> ctor, eventName |-> eventName,
                   inits |-> 1, scan |-> 0, index |-> 0])]
        r2  == ensureEvent(r, eventName)
    IN  registerAction(r2, r2.events[eventName], aid)

(***************************************************************************)
(* Trigger data                                                            *)
(***************************************************************************)
\* TriggerBase.composeTriggerData: data[key] = value for every attribute of the
\* element named <attribute>:data:<key>
RECURSIVE composeBase(_, _, _)
composeBase(attrs, attribute, k) ==
    IF k = 0 THEN << >>
    ELSE LET rest   == composeBase(attrs, attribute, k - 1)
             prefix == attribute \o <<COLON, DataSegment, COLON>>
         IN  IF StartsWith(attrs[k].name, prefix)
             THEN [key \in (DOMAIN rest) \cup {StripPrefix(attrs[k].name, prefix)} |->
                      IF key = StripPrefix(attrs[k].name, prefix)
                      THEN attrs[k].value ELSE rest[key]]
             ELSE rest

\* a header collection that does not look at the element's attributes
RECURSIVE collectHeadersNone(_, _)
collectHeadersNone(attrs, k) == IF k = 0 THEN << >> ELSE collectHeadersNone(attrs, k - 1)

\* the header map TriggerSubmit collects from trigger:submit:header:* attributes,
\* by own key: headers is an object literal, and headers[headerName] = attr.value
\* for the name __proto__ hands the string to the inherited setter, which
\* ignores it
RECURSIVE collectHeaders(_, _)
collectHeaders(attrs, k) ==
    IF k = 0 THEN << >>
    ELSE LET rest       == collectHeaders(attrs, k - 1)
             prefix     == <<NsTrigger, COLON, "submit", COLON, "header", COLON>>
             headerName == StripPrefix(attrs[k].name, prefix)
         IN  IF StartsWith(attrs[k].name, prefix) /\ headerName # <<"__proto__">>
             THEN [h \in (DOMAIN rest) \cup {headerName} |->
                      IF h = headerName THEN attrs[k].value ELSE rest[h]]
             ELSE rest

\* the properties an object literal {} inherits from Object.prototype, by name
ObjectPrototype ==
    {"constructor", "__defineGetter__", "__defineSetter__", "hasOwnProperty",
     "__lookupGetter__", "__lookupSetter__", "isPrototypeOf", "propertyIsEnumerable",
     "toString", "valueOf", "__proto__", "toLocaleString"}

\* the properties an array inherits from Array.prototype, by name
ArrayPrototype ==
    {"constructor", "at", "concat", "copyWithin", "entries", "every", "fill", "filter",
     "find", "findIndex", "findLast", "findLastIndex", "flat", "flatMap", "forEach",
     "includes", "indexOf", "join", "keys", "lastIndexOf", "map", "pop", "push",
     "reduce", "reduceRight", "reverse", "shift", "slice", "some", "sort", "splice",
     "toLocaleString", "toReversed", "toSorted", "toSpliced", "toString", "unshift",
     "values", "with"}

\* the decimal digits
Digits == <<"0", "1", "2", "3", "4", "5", "6", "7", "8", "9">>

\* the property name of array index n: String(n), its decimal digits
RECURSIVE IndexName(_)
IndexName(n) ==
    IF n < 10 THEN Digits[n + 1] ELSE IndexName(n \div 10) \o Digits[(n % 10) + 1]

\* how the inherited values read: a method, a constructor, Object.prototype
Inherited(key, class) ==
    IF key = "constructor" THEN "[Function: " \o class \o "]"
    ELSE "[Function: " \o key \o "]"

ObjectPrototypeItself == "[Object: null prototype] {}"

\* the object fields starts as: no own entry, Object.prototype as its prototype
EmptyObject == [own |-> << >>, array |-> FALSE, items |-> <<>>]

\* const existing = fields[key]: the own entry, else what the prototype chain
\* holds under the name; fields.array tells that an assignment to __proto__ made
\* the array fields.items the prototype of fields
Existing(fields, key) ==
    IF key \in DOMAIN fields.own THEN fields.own[key]
    ELSE IF key = "__proto__"
         THEN (IF fields.array THEN [prototype |-> TRUE]
               ELSE [value |-> ObjectPrototypeItself])
    ELSE IF fields.array /\ \E i \in 1..Len(fields.items) : IndexName(i - 1) = key
         THEN [value |-> fields.items[CHOOSE i \in 1..Len(fields.items) :
                                         IndexName(i - 1) = key]]
    ELSE IF fields.array /\ key = "length"
         THEN [value |-> IndexName(Len(fields.items))]
    ELSE IF fields.array /\ key \in ArrayPrototype THEN [value |-> Inherited(key, "Array")]
    ELSE IF key \in ObjectPrototype THEN [value |-> Inherited(key, "Object")]
    ELSE [undefined |-> TRUE]

\* one pass of the loop over formData.entries() for a value that is not a File
collectField(fields, key, value) ==
    LET existing == Existing(fields, key)
        Own(entry) == [fields EXCEPT !.own =
                          [f \in (DOMAIN fields.own) \cup {key} |->
                              IF f # key THEN fields.own[f] ELSE entry]]
    IN  IF DOMAIN existing = {"undefined"} THEN Own([value |-> value])
        ELSE IF DOMAIN existing = {"array"}
             THEN Own([array |-> Append(existing.array, value)])
        ELSE IF DOMAIN existing = {"prototype"}
             THEN [fields EXCEPT !.items = Append(@, value)]
        ELSE IF key = "__proto__"
             THEN [fields EXCEPT !.array = TRUE, !.items = <<existing.value, value>>]
             ELSE Own([array |-> <<existing.value, value>>])

\* the object fields after the first k controls
RECURSIVE collectObject(_, _)
collectObject(inputs, k) ==
    IF k = 0 THEN EmptyObject
    ELSE LET fields == collectObject(inputs, k - 1)
         IN  IF inputs[k].file THEN fields
             ELSE collectField(fields, inputs[k].name, inputs[k].value)

\* a serialization that keeps only the last value of a repeated key
RECURSIVE collectFieldsLast(_, _)
collectFieldsLast(inputs, k) ==
    IF k = 0 THEN << >>
    ELSE LET fields == collectFieldsLast(inputs, k - 1)
             key    == inputs[k].name
         IN  IF inputs[k].file THEN fields
             ELSE [f \in (DOMAIN fields) \cup {key} |->
                     IF f # key THEN fields[f] ELSE [value |-> inputs[k].value]]

\* the serialized form fields, by own key: File values are skipped; a value
\* whose key reads undefined is stored as it is, a value whose key reads a list
\* is pushed onto it, and any other makes the entry the list of what was read
\* and the value (assigned to __proto__, that list becomes the prototype and no
\* own entry is made)
collectFields(inputs, k) == collectObject(inputs, k).own

\* a submit composition that leaves the base entries out
composeSubmitOnly(element, attribute) ==
    LET isForm  == element.tag = "form"
        fields  == IF isForm THEN collectFields(element.inputs, Len(element.inputs))
                   ELSE << >>
        headers == IF isForm THEN collectHeaders(element.attrs, Len(element.attrs))
                   ELSE << >>
    IN  [key \in {<<"fields">>, <<"headers">>} |->
            IF key = <<"fields">> THEN [fields |-> fields]
            ELSE (IF DOMAIN headers # {} THEN [headers |-> headers]
                  ELSE [undefined |-> TRUE])]

\* TriggerSubmit.composeTriggerData: { ...base, fields, headers }
composeSubmit(element, attribute) ==
    LET base    == composeBase(element.attrs, attribute, Len(element.attrs))
        isForm  == element.tag = "form"
        fields  == IF isForm THEN collectFields(element.inputs, Len(element.inputs))
                   ELSE << >>
        headers == IF isForm THEN collectHeaders(element.attrs, Len(element.attrs))
                   ELSE << >>
    IN  [key \in (DOMAIN base) \cup {<<"fields">>, <<"headers">>} |->
            IF key = <<"fields">> THEN [fields |-> fields]
            ELSE IF key = <<"headers">>
                 THEN (IF DOMAIN headers # {} THEN [headers |-> headers]
                       ELSE [undefined |-> TRUE])
            ELSE base[key]]

\* the composition a trigger instance runs, by its class
composeTriggerData(element, trig) ==
    IF trig.ctor = "TriggerSubmit" THEN composeSubmit(element, trig.attribute)
    ELSE composeBase(element.attrs, trig.attribute, Len(element.attrs))


(***************************************************************************)
(* Event handlers                                                          *)
(***************************************************************************)
\* what one call of action.trigger does: returns at once, throws at once, or
\* returns a pending operation
Outcomes == {"returned", "threw", "pending"}

\* an await whose continuation runs on fulfilment only
SettledFulfilled == {"returned", "threw", "resolved"}

Settled == {"returned", "threw", "resolved", "rejected"}

Call(aid, result) == [action |-> aid, result |-> result]

\* a forEach that stops issuing calls at the first pending operation
RECURSIVE forEachTriggerWaiting(_, _, _)
forEachTriggerWaiting(list, outcome, k) ==
    IF k > Len(list) THEN [calls |-> <<>>, status |-> "returned"]
    ELSE IF outcome[k] = "threw"
         THEN [calls |-> <<Call(list[k], "threw")>>, status |-> "threw"]
         ELSE IF outcome[k] = "pending"
              THEN [calls |-> <<Call(list[k], "pending")>>, status |-> "returned"]
              ELSE LET rest == forEachTriggerWaiting(list, outcome, k + 1)
                   IN  [calls |-> <<Call(list[k], outcome[k])>> \o rest.calls,
                        status |-> rest.status]

\* this.actions.forEach(action => action.trigger(...)): an exception ends the loop
RECURSIVE forEachTrigger(_, _, _)
forEachTrigger(list, outcome, k) ==
    IF k > Len(list) THEN [calls |-> <<>>, status |-> "returned"]
    ELSE IF outcome[k] = "threw"
         THEN [calls |-> <<Call(list[k], "threw")>>, status |-> "threw"]
         ELSE LET rest == forEachTrigger(list, outcome, k + 1)
              IN  [calls |-> <<Call(list[k], outcome[k])>> \o rest.calls,
                   status |-> rest.status]

\* EventDefault.invoke
EventDefaultInvoke(handler, outcome) ==
    IF Len(handler.actions) = 0 THEN [calls |-> <<>>, status |-> "returned"]
    ELSE forEachTrigger(handler.actions, outcome, 1)

\* a sequential loop without the await: every call is issued at once
RECURSIVE sequentialLoopNoAwait(_, _, _)
sequentialLoopNoAwait(list, outcome, i) ==
    IF i > Len(list) THEN [calls |-> <<>>, status |-> "completed"]
    ELSE LET rest == sequentialLoopNoAwait(list, outcome, i + 1)
         IN  [calls |-> <<Call(list[i], outcome[i])>> \o rest.calls,
              status |-> IF outcome[i] = "pending" THEN "awaiting" ELSE rest.status]

\* a sequential loop without the try/catch: a throwing action ends the sequence
RECURSIVE sequentialLoopAbort(_, _, _)
sequentialLoopAbort(list, outcome, i) ==
    IF i > Len(list) THEN [calls |-> <<>>, status |-> "completed"]
    ELSE IF outcome[i] = "threw"
         THEN [calls |-> <<Call(list[i], "threw")>>, status |-> "completed"]
         ELSE [calls |-> <<Call(list[i], outcome[i])>>, status |-> "awaiting"]

\* the for loop of EventSequential.invoke from index i up to its next suspension:
\* a synchronous throw is caught and the loop goes on; anything else is awaited
RECURSIVE sequentialLoop(_, _, _)
sequentialLoop(list, outcome, i) ==
    IF i > Len(list) THEN [calls |-> <<>>, status |-> "completed"]
    ELSE IF outcome[i] = "threw"
         THEN LET rest == sequentialLoop(list, outcome, i + 1)
              IN  [calls |-> <<Call(list[i], "threw")>> \o rest.calls,
                   status |-> rest.status]
         ELSE [calls |-> <<Call(list[i], outcome[i])>>, status |-> "awaiting"]

\* EventSequential.invoke up to its first suspension
EventSequentialInvoke(handler, outcome) ==
    IF Len(handler.actions) = 0 THEN [calls |-> <<>>, status |-> "completed"]
    ELSE sequentialLoop(handler.actions, outcome, 1)

\* event.invoke(element, data), by the handler's class
HandlerInvoke(handler, outcome) ==
    IF handler.kind = "sequential" THEN EventSequentialInvoke(handler, outcome)
    ELSE EventDefaultInvoke(handler, outcome)

(***************************************************************************)
(* State machine                                                           *)
(***************************************************************************)
Reg == Registry(events, handlers, triggers, actions, warnings)

SetReg(r) ==
    /\ events' = r.events
    /\ handlers' = r.handlers
    /\ triggers' = r.triggers
    /\ actions' = r.actions
    /\ warnings' = r.warnings

EventNames == {"go", "e2"}

\* the names a page of the site binds or registers a handler for
SiteEventNames == EventNames \cup {"set-status"}

HandlerKinds == {"default", "sequential"}

Programmatic == {a \in 1..Len(actions) : actions[a].element = NoElement}

RegisterProgrammaticAction(type, eventName, ctor) ==
    /\ Cardinality(Programmatic) < MaxProgrammatic
    /\ SetReg(registerProgrammaticAction(Reg, type, eventName, ctor))
    /\ UNCHANGED <<tree, triggerTypes, actionTypes, scans, invocations, uncaught,
                   hostVars>>

\* EventRegistry.registerEvent(name, new EventDefault(name) | new EventSequential(name))
RegisterEvent(eventName, kind) ==
    /\ Len(SelectSeq(handlers, LAMBDA h : h.eventName \in SiteEventNames)) < MaxHandlers
    /\ SetReg(registerEvent(Reg, eventName, NewHandler(kind, eventName)))
    /\ UNCHANGED <<tree, triggerTypes, actionTypes, scans, invocations, uncaught,
                   hostVars>>

\* initialize(): one run of the tree scan
Initialize ==
    /\ scans = 0
    /\ scans' = scans + 1
    /\ SetReg(initializeFIX(Reg, triggerTypes, actionTypes, tree, scans + 1))
    /\ UNCHANGED <<tree, triggerTypes, actionTypes, invocations, uncaught,
                   hostVars>>

\* an invoke that makes no call while an earlier invocation on the same handler
\* is still awaiting
invocationOfQueued(tid, outcome) ==
    LET trig    == triggers[tid]
        hid     == getEvent(Reg, trig.eventName)
        handler == handlers[hid]
        run     == HandlerInvoke(handler, outcome)
        busy    == \E v \in 1..Len(invocations) :
                      invocations[v].handler = hid /\ invocations[v].status = "awaiting"
    IN  [trigger |-> tid, handler |-> hid, element |-> trig.element,
         data |-> composeTriggerData(tree[trig.element], trig),
         started |-> handler.actions,
         calls |-> IF busy THEN <<>> ELSE run.calls,
         status |-> IF busy THEN "queued" ELSE run.status]

\* TriggerBase.invoke of trigger tid up to the return of the handler's invoke
\* (for a sequential handler: up to its first suspension)
invocationOf(tid, outcome) ==
    LET trig    == triggers[tid]
        hid     == getEvent(Reg, trig.eventName)
        handler == handlers[hid]
        run     == HandlerInvoke(handler, outcome)
    IN  [trigger |-> tid, handler |-> hid, element |-> trig.element,
         data |-> composeTriggerData(tree[trig.element], trig),
         started |-> handler.actions,
         calls |-> run.calls, status |-> run.status]

\* a platform occurrence runs the listener of trigger tid: TriggerBase.invoke
Invoke(tid) ==
    /\ triggers[tid].listening
    /\ hasEvent(events, triggers[tid].eventName)
    /\ LET handler == handlers[getEvent(Reg, triggers[tid].eventName)]
       IN  \E outcome \in [1..Len(handler.actions) -> Outcomes] :
              LET inv == invocationOf(tid, outcome)
              IN  /\ invocations' = Append(invocations, inv)
                  /\ uncaught' = IF inv.status = "threw"
                                 THEN uncaught \cup {[invocation |-> Len(invocations) + 1,
                                                      call |-> Len(inv.calls)]}
                                 ELSE uncaught
    /\ UNCHANGED <<tree, triggerTypes, actionTypes, events, handlers, triggers,
                   actions, warnings, scans,
                   hostVars>>

\* the first occurrence on the page
Fire(tid) ==
    /\ invocations = <<>>
    /\ Invoke(tid)

\* the pending operation of call k of invocation v resolves or rejects
Settle(v, k, how) ==
    /\ invocations[v].calls[k].result = "pending"
    /\ invocations' = [invocations EXCEPT ![v].calls[k].result = how]
    /\ uncaught' = IF how = "rejected" /\ handlers[invocations[v].handler].kind = "default"
                   THEN uncaught \cup {[invocation |-> v, call |-> k]}
                   ELSE uncaught
    /\ UNCHANGED <<tree, triggerTypes, actionTypes, events, handlers, triggers,
                   actions, warnings, scans,
                   hostVars>>

\* the sequential handler resumes after the awaited call has settled
Resume(v) ==
    /\ invocations[v].status = "awaiting"
    /\ invocations[v].calls[Len(invocations[v].calls)].result \in Settled
    /\ LET inv  == invocations[v]
           list == handlers[inv.handler].actions
       IN  \E outcome \in [1..Len(list) -> Outcomes] :
              LET run == sequentialLoop(list, outcome, Len(inv.calls) + 1)
              IN  invocations' = [invocations EXCEPT
                                     ![v].calls = @ \o run.calls,
                                     ![v].status = run.status]
    /\ UNCHANGED <<tree, triggerTypes, actionTypes, events, handlers, triggers,
                   actions, warnings, scans, uncaught,
                   hostVars>>


\* a page without a WebflowForm component
NoForm == [element |-> "none", modeAttr |-> "absent", done |-> FALSE, fail |-> FALSE,
           constructed |-> FALSE, threw |-> FALSE, autoMode |-> TRUE,
           style |-> [form |-> "", success |-> "", error |-> ""],
           filled |-> FALSE, listeners |-> 0]

\* a route whose page has not run onLoad
NoPage == [onLoad |-> "idle", forms |-> {}, token |-> ""]

\* a JavaScript number: an integer, or NaN
Num(v) == [nan |-> FALSE, v |-> v]

NaN == [nan |-> TRUE, v |-> 0]

\* the value null of a field typed number | null
Null == [null |-> TRUE]

\* the autoplay delay a slider starts with, in milliseconds
DefaultDelay == 4000

\* a page without a WebflowSlider component; constructed tells that a slider
\* object exists, threw that its constructor threw
NoSlider == [constructed |-> FALSE, threw |-> FALSE,
             slides |-> 0, currentSlide |-> Num(0), autoplayInterval |-> Null,
             autoplayDelay |-> Num(DefaultDelay), autoplay |-> FALSE,
             changeCallbacks |-> 0, called |-> <<>>, timers |-> {}, handles |-> 0]

\* the API client with no request made; apiRequiresAuth is the build's setting
NoApi == [apiRequiresAuth |-> TRUE, calls |-> <<>>]

NoComponents ==
    /\ form = NoForm
    /\ submissions = <<>>
    /\ api = NoApi
    /\ occurrences = <<>>
    /\ page = NoPage
    /\ slider = NoSlider

\* the page-load state before the site script has run, document parsed
NotLoaded ==
    [readyState |-> "complete", script |-> FALSE, listener |-> FALSE, execs |-> 0,
     log |-> <<>>, early |-> {}, sequential |-> {}]

(***************************************************************************)
(* Pages                                                                   *)
(***************************************************************************)
Attr(name, value) == [name |-> name, value |-> value]

Element(tag, attrs, inputs) == [tag |-> tag, attrs |-> attrs, inputs |-> inputs]

\* a form control: its name, its value, and whether the value is a File
Input(name, value, file) == [name |-> name, value |-> value, file |-> file]

TriggerButton ==
    Element("button", <<Attr(<<"trigger", COLON, "click">>, "go"),
                        Attr(<<"trigger", COLON, "click", COLON, "data", COLON, "id">>, "42")>>,
            <<>>)

ActionDiv(type, eventName) ==
    Element("div", <<Attr(<<"action", COLON, type>>, eventName)>>, <<>>)

\* the pages of the dispatch specification
Pages ==
    { <<TriggerButton, ActionDiv("click", "go"), ActionDiv("set-status", "go")>>,
      <<Element("div", <<Attr(<<"action", COLON, "set-status">>, "go"),
                         Attr(<<"action", COLON, "click">>, "go")>>, <<>>),
        TriggerButton, ActionDiv("click", "e2")>>,
      <<TriggerButton>>,
      <<TriggerButton, ActionDiv("add-listing", "go")>>,
      <<Element("button", <<Attr(<<"trigger", COLON, "click">>, "set-status")>>, <<>>),
        Element("div", <<Attr(<<"action", COLON, "set-status">>, "set-status"),
                         Attr(<<"action", COLON, "click">>, "set-status")>>, <<>>)>> }

\* the type registries once the engine and the project modules are loaded
LoadedTriggerTypes == [n \in {"click", "submit"} |->
                          IF n = "click" THEN "TriggerClick" ELSE "TriggerSubmit"]

LoadedActionTypes == [n \in {"click", "set-status", "delete-listing", "add-listing"} |->
                         IF n = "click" THEN "ActionClick"
                         ELSE IF n = "set-status" THEN "ActionSetStatus"
                         ELSE IF n = "delete-listing" THEN "ActionDeleteListing"
                         ELSE "ActionAddListing"]

\* the two module registries of the repository: registry.ts and routes.ts
Builds == {"registry", "routes"}

\* the type registries once a module registry and its imports are evaluated:
\* routes.ts imports no submit trigger and no add-listing action
moduleTypes(build) ==
    IF build = "registry"
    THEN [triggers |-> LoadedTriggerTypes, actions |-> LoadedActionTypes]
    ELSE [triggers |-> [n \in {"click"} |-> LoadedTriggerTypes[n]],
          actions  |-> [n \in {"click", "delete-listing", "set-status"} |->
                           LoadedActionTypes[n]]]

\* the module-level statements of a module registry, in their order
moduleStatements(reg, build) ==
    LET r1 == registerProgrammaticAction(reg, "delete-listing", "delete-listing",
                                         "ActionDeleteListing")
        r2 == registerProgrammaticAction(r1, "set-status", "set-status", "ActionSetStatus")
    IN  IF build = "registry"
        THEN registerProgrammaticAction(r2, "add-listing", "add-listing", "ActionAddListing")
        ELSE r2

\* the module registry has been evaluated
ModuleLoaded == \E a \in 1..Len(actions) : actions[a].element = NoElement

Init ==
    /\ tree \in Pages
    /\ triggerTypes = << >>
    /\ actionTypes = << >>
    /\ events = << >>
    /\ handlers = <<>>
    /\ triggers = <<>>
    /\ actions = <<>>
    /\ warnings = <<>>
    /\ scans = 0
    /\ invocations = <<>>
    /\ uncaught = {}
    /\ load = NotLoaded
    /\ NoComponents

\* the module registry is evaluated, before the scan: its imports register the
\* trigger and action types, then its module-level statements make the
\* programmatic registrations
LoadModule ==
    /\ scans = 0
    /\ ~ModuleLoaded
    /\ \E build \in Builds :
          /\ triggerTypes' = moduleTypes(build).triggers
          /\ actionTypes' = moduleTypes(build).actions
          /\ SetReg(moduleStatements(Reg, build))
    /\ UNCHANGED <<tree, scans, invocations, uncaught, hostVars>>

Next ==
    \/ LoadModule
    \/ \E e \in SiteEventNames, kind \in HandlerKinds : RegisterEvent(e, kind)
    \/ ModuleLoaded /\ Initialize
    \/ \E tid \in 1..Len(triggers) : Fire(tid)
    \/ \E v \in 1..Len(invocations) :
          \E k \in 1..Len(invocations[v].calls), how \in {"resolved", "rejected"} :
             Settle(v, k, how)
    \/ \E v \in 1..Len(invocations) : Resume(v)

Spec == Init /\ [][Next]_vars


(***************************************************************************)
(* Scan specification: the document is built element by element and        *)
(* attribute by attribute, and scanned once at any point                   *)
(***************************************************************************)
Name2(ns, type) == <<ns, COLON, type>>

Name4(ns, type, kind, key) == <<ns, COLON, type, COLON, kind, COLON, key>>

\* the attributes a scanned document is written with
ScanAttributes ==
    { Attr(Name2("trigger", "click"), "go"),
      Attr(Name2("trigger", "click"), "e2"),
      Attr(Name2("trigger", "hover"), "go"),
      Attr(Name4("trigger", "click", "data", "id"), "42"),
      Attr(Name4("trigger", "submit", "header", "authorization"), "x"),
      Attr(<<"trigger", COLON>>, "x"),
      Attr(Name2("action", "click"), "go"),
      Attr(Name2("action", "click"), "e2"),
      Attr(Name2("action", "nope"), "go"),
      Attr(<<"action", COLON, "click", COLON, "extra">>, "x"),
      Attr(<<"class">>, "x") }

RECURSIVE CountAttrs(_, _)
CountAttrs(t, i) == IF i = 0 THEN 0 ELSE CountAttrs(t, i - 1) + Len(t[i].attrs)

\* document.createElement + appendChild
AddElement(tag) ==
    /\ Len(tree) < MaxElements
    /\ tree' = Append(tree, Element(tag, <<>>, <<>>))
    /\ UNCHANGED <<triggerTypes, actionTypes, events, handlers, triggers, actions,
                   warnings, scans, invocations, uncaught,
                   hostVars>>

\* element.setAttribute(name, value) with a new name, on the last element
AddAttribute(a) ==
    /\ Len(tree) > 0
    /\ CountAttrs(tree, Len(tree)) < MaxAttrs
    /\ \A k \in 1..Len(tree[Len(tree)].attrs) : tree[Len(tree)].attrs[k].name # a.name
    /\ tree' = [tree EXCEPT ![Len(tree)].attrs = Append(@, a)]
    /\ UNCHANGED <<triggerTypes, actionTypes, events, handlers, triggers, actions,
                   warnings, scans, invocations, uncaught,
                   hostVars>>

InitScan ==
    /\ tree = <<>>
    /\ triggerTypes = LoadedTriggerTypes
    /\ actionTypes = LoadedActionTypes
    /\ events = << >>
    /\ handlers = <<>>
    /\ triggers = <<>>
    /\ actions = <<>>
    /\ warnings = <<>>
    /\ scans = 0
    /\ invocations = <<>>
    /\ uncaught = {}
    /\ load = NotLoaded
    /\ NoComponents

NextScan ==
    \/ AddElement("div")
    \/ \E a \in ScanAttributes : AddAttribute(a)
    \/ Initialize

SpecScan == InitScan /\ [][NextScan]_vars


(***************************************************************************)
(* Data specification: one element, written attribute by attribute,        *)
(* scanned once and its triggers fired                                     *)
(***************************************************************************)
DataAttributes ==
    { Attr(Name2("trigger", "click"), "e1"),
      Attr(Name2("trigger", "submit"), "e1"),
      Attr(Name4("trigger", "click", "data", "id"), "42"),
      Attr(Name4("trigger", "click", "data", "color"), "red"),
      Attr(Name4("trigger", "submit", "data", "id"), "7"),
      Attr(Name4("trigger", "submit", "data", "fields"), "zz"),
      Attr(Name4("trigger", "submit", "header", "authorization"), "Bearer"),
      Attr(<<"trigger", COLON, "click", COLON, "data", COLON, "a", COLON, "b">>, "k"),
      Attr(<<"class">>, "x") }

InitData ==
    /\ tree \in { <<Element("form", <<>>, <<Input("email", "a", FALSE)>>)>>,
                  <<Element("button", <<>>, <<>>)>> }
    /\ triggerTypes = LoadedTriggerTypes
    /\ actionTypes = LoadedActionTypes
    /\ events = << >>
    /\ handlers = <<>>
    /\ triggers = <<>>
    /\ actions = <<>>
    /\ warnings = <<>>
    /\ scans = 0
    /\ invocations = <<>>
    /\ uncaught = {}
    /\ load = NotLoaded
    /\ NoComponents

NextData ==
    \/ \E a \in DataAttributes : AddAttribute(a)
    \/ Initialize
    \/ \E tid \in 1..Len(triggers) : Fire(tid)

SpecData == InitData /\ [][NextData]_vars


(***************************************************************************)
(* Mutation specification: a scanned element whose attributes are set and  *)
(* removed between occurrences                                             *)
(***************************************************************************)
\* element.setAttribute(name, value): the value is replaced in place, a new name
\* goes to the end of the attribute list
SetAttribute(i, a) ==
    /\ i \in 1..Len(tree)
    /\ LET attrs == tree[i].attrs
           at    == {k \in 1..Len(attrs) : attrs[k].name = a.name}
       IN  IF at = {}
           THEN /\ Len(attrs) < MaxAttrs
                /\ tree' = [tree EXCEPT ![i].attrs = Append(@, a)]
           ELSE /\ \E k \in at : attrs[k].value # a.value
                /\ tree' = [tree EXCEPT ![i].attrs =
                              [k \in 1..Len(attrs) |-> IF k \in at THEN a ELSE attrs[k]]]
    /\ UNCHANGED <<triggerTypes, actionTypes, events, handlers, triggers, actions,
                   warnings, scans, invocations, uncaught,
                   hostVars>>

\* element.removeAttribute(name)
RemoveAttribute(i, name) ==
    /\ i \in 1..Len(tree)
    /\ \E k \in 1..Len(tree[i].attrs) :
          /\ tree[i].attrs[k].name = name
          /\ tree' = [tree EXCEPT ![i].attrs =
                        SubSeq(@, 1, k - 1) \o SubSeq(@, k + 1, Len(@))]
    /\ UNCHANGED <<triggerTypes, actionTypes, events, handlers, triggers, actions,
                   warnings, scans, invocations, uncaught,
                   hostVars>>

\* a later occurrence on the page
Refire(tid) ==
    /\ Len(invocations) < MaxInvocations
    /\ Invoke(tid)

\* the supplements written to a trigger element after the page is loaded
MutableAttributes ==
    { Attr(Name4("trigger", "click", "data", "id"), "42"),
      Attr(Name4("trigger", "click", "data", "id"), "43"),
      Attr(Name4("trigger", "click", "data", "color"), "red"),
      Attr(Name4("trigger", "submit", "data", "id"), "7"),
      Attr(Name4("trigger", "submit", "data", "id"), "8"),
      Attr(Name4("trigger", "submit", "header", "authorization"), "Bearer") }

MutablePages ==
    { <<Element("button", <<Attr(Name2("trigger", "click"), "e1"),
                            Attr(Name4("trigger", "click", "data", "id"), "42")>>, <<>>)>>,
      <<Element("form", <<Attr(Name2("trigger", "submit"), "e1"),
                          Attr(Name4("trigger", "submit", "data", "id"), "7")>>,
                <<Input("email", "a", FALSE)>>)>> }

InitMutation ==
    /\ tree \in MutablePages
    /\ triggerTypes = LoadedTriggerTypes
    /\ actionTypes = LoadedActionTypes
    /\ events = << >>
    /\ handlers = <<>>
    /\ triggers = <<>>
    /\ actions = <<>>
    /\ warnings = <<>>
    /\ scans = 0
    /\ invocations = <<>>
    /\ uncaught = {}
    /\ load = NotLoaded
    /\ NoComponents

NextMutation ==
    \/ Initialize
    \/ \E a \in MutableAttributes : SetAttribute(1, a)
    \/ \E a \in MutableAttributes : RemoveAttribute(1, a.name)
    \/ \E tid \in 1..Len(triggers) : Refire(tid)

SpecMutation == InitMutation /\ [][NextMutation]_vars


(***************************************************************************)
(* Load specification: the site script, DOM readiness, exec, and the       *)
(* occurrences that follow                                                 *)
(***************************************************************************)
\* what exec works on: the registries, the scan count and the call log
World(reg, n, log) == [reg |-> reg, scans |-> n, log |-> log]

\* the guide's registration statements:
\* EventRegistry.registerEvent(name, new EventSequential(name)) for each name
RECURSIVE registerSequential(_, _)
registerSequential(reg, names) ==
    IF names = {} THEN reg
    ELSE LET n == CHOOSE x \in names : TRUE
         IN  registerSequential(registerEvent(reg, n, NewHandler("sequential", n)),
                                names \ {n})

\* a page's onLoad() as the guide's complete example writes it
onLoad(reg, names) == registerSequential(reg, names)

\* an exec in the order the entry point had before components were moved first
execRouteFirst(w, tTypes, aTypes, t, names) ==
    LET w1 == [w EXCEPT !.reg = onLoad(@, names), !.log = Append(@, "execRoute")]
        w2 == [w1 EXCEPT !.log = Append(@, "initializeComponents")]
    IN  [w2 EXCEPT !.reg = initializeFIX(@, tTypes, aTypes, t, w2.scans + 1),
                   !.scans = @ + 1,
                   !.log = Append(@, "initializeFIX")]

\* exec: initializeComponents(); initializeFIX(); dispatcher.execRoute()
exec(w, tTypes, aTypes, t, names) ==
    LET w1 == [w EXCEPT !.log = Append(@, "initializeComponents")]
        w2 == [w1 EXCEPT !.reg = initializeFIX(@, tTypes, aTypes, t, w1.scans + 1),
                         !.scans = @ + 1,
                         !.log = Append(@, "initializeFIX")]
    IN  [w2 EXCEPT !.reg = onLoad(@, names), !.log = Append(@, "execRoute")]

\* exec runs from page-load state l, registries reg and type registries tTypes,
\* aTypes
Exec(l, reg, tTypes, aTypes) ==
    LET w == exec(World(reg, scans, l.log), tTypes, aTypes, tree, l.sequential)
    IN  /\ SetReg(w.reg)
        /\ scans' = w.scans
        /\ load' = [l EXCEPT !.execs = @ + 1, !.log = w.log]

\* the site script: the imports of the module registry (they register the
\* trigger and action types), its module-level statements (among them the
\* registrations a site makes "during initialization"), setup(), then exec() at
\* once when the document is parsed, else exec is registered for DOMContentLoaded
RunScript ==
    /\ ~load.script
    /\ \E build \in Builds :
          LET loaded == registerSequential(moduleStatements(Reg, build), load.early)
              types  == moduleTypes(build)
          IN  /\ triggerTypes' = types.triggers
              /\ actionTypes' = types.actions
              /\ IF load.readyState # "loading"
                 THEN Exec([load EXCEPT !.script = TRUE], loaded,
                           types.triggers, types.actions)
                 ELSE /\ load' = [load EXCEPT !.script = TRUE, !.listener = TRUE]
                      /\ SetReg(loaded)
                      /\ UNCHANGED scans
    /\ UNCHANGED <<tree, invocations, uncaught, componentVars>>

\* the document finishes parsing: DOMContentLoaded is dispatched once
DOMContentLoaded ==
    /\ load.readyState = "loading"
    /\ IF load.listener
       THEN Exec([load EXCEPT !.readyState = "interactive"], Reg, triggerTypes, actionTypes)
       ELSE /\ load' = [load EXCEPT !.readyState = "interactive"]
            /\ UNCHANGED <<events, handlers, triggers, actions, warnings, scans>>
    /\ UNCHANGED <<tree, triggerTypes, actionTypes, invocations, uncaught,
                   componentVars>>

InitLoad ==
    /\ tree \in Pages
    /\ triggerTypes = << >>
    /\ actionTypes = << >>
    /\ events = << >>
    /\ handlers = <<>>
    /\ triggers = <<>>
    /\ actions = <<>>
    /\ warnings = <<>>
    /\ scans = 0
    /\ invocations = <<>>
    /\ uncaught = {}
    /\ \E rs \in {"loading", "complete"}, early \in {{}, {"go"}}, names \in {{}, {"go"}} :
          load = [NotLoaded EXCEPT !.readyState = rs, !.early = early,
                                   !.sequential = names]
    /\ NoComponents

NextLoad ==
    \/ RunScript
    \/ DOMContentLoaded
    \/ \E tid \in 1..Len(triggers) : Fire(tid)
    \/ \E v \in 1..Len(invocations) :
          \E k \in 1..Len(invocations[v].calls), how \in {"resolved", "rejected"} :
             Settle(v, k, how)
    \/ \E v \in 1..Len(invocations) : Resume(v)

SpecLoad == InitLoad /\ [][NextLoad]_vars


(***************************************************************************)
(* Registration specification: types, events and programmatic actions      *)
(* registered at any moment around one scan                                *)
(***************************************************************************)
\* registerTriggerType(name, ctor)
RegisterTriggerType(name, ctor) ==
    /\ triggerTypes' = registerType(triggerTypes, name, ctor)
    /\ UNCHANGED <<tree, actionTypes, events, handlers, triggers, actions,
                   warnings, scans, invocations, uncaught, hostVars>>

\* registerActionType(name, ctor)
RegisterActionType(name, ctor) ==
    /\ actionTypes' = registerType(actionTypes, name, ctor)
    /\ UNCHANGED <<tree, triggerTypes, events, handlers, triggers, actions,
                   warnings, scans, invocations, uncaught, hostVars>>

\* a form and a block whose bindings use type names of the other side as well
RegistrationPages ==
    { <<Element("form", <<Attr(Name2("trigger", "submit"), "go"),
                          Attr(Name2("action", "submit"), "go")>>, <<>>),
        Element("div", <<Attr(Name2("action", "set-status"), "go"),
                         Attr(Name2("trigger", "set-status"), "e2"),
                         Attr(Name2("action", "click"), "go")>>, <<>>)>> }

InitRegistration ==
    /\ tree \in RegistrationPages
    /\ triggerTypes = LoadedTriggerTypes
    /\ actionTypes = LoadedActionTypes
    /\ events = << >>
    /\ handlers = <<>>
    /\ triggers = <<>>
    /\ actions = <<>>
    /\ warnings = <<>>
    /\ scans = 0
    /\ invocations = <<>>
    /\ uncaught = {}
    /\ load = NotLoaded
    /\ NoComponents

NextRegistration ==
    \/ \E name \in {"submit", "set-status"}, ctor \in {"TriggerClick", "TriggerSubmit"} :
          RegisterTriggerType(name, ctor)
    \/ \E ctor \in {"ActionClick", "ActionSetStatus"} : RegisterActionType("submit", ctor)
    \/ \E e \in EventNames : RegisterProgrammaticAction("set-status", e, "ActionSetStatus")
    \/ \E e \in EventNames, kind \in HandlerKinds : RegisterEvent(e, kind)
    \/ Initialize

SpecRegistration == InitRegistration /\ [][NextRegistration]_vars


(***************************************************************************)
(* Attribute values: a document whose binding attributes carry any value,  *)
(* the empty one and values with white space included, then one scan.      *)
(***************************************************************************)
NameAttributes ==
    { Attr(Name2("trigger", "click"), v) : v \in {"go", "", "my event"} }
    \cup { Attr(Name2("action", "click"), v) : v \in {"go", "", " "} }
    \cup { Attr(Name2("action", "nope"), "two words") }

NextNames ==
    \/ AddElement("div")
    \/ \E a \in NameAttributes : AddAttribute(a)
    \/ Initialize

SpecNames == InitScan /\ [][NextNames]_vars


(***************************************************************************)
(* A second run of the scan over the same document, and a platform         *)
(* occurrence on an element, which runs every listener attached to it.     *)
(***************************************************************************)
RescanPages ==
    { <<TriggerButton, ActionDiv("click", "go")>>,
      <<TriggerButton, ActionDiv("nope", "go"), ActionDiv("set-status", "e2")>> }

\* initializeFIX() called a second time
Reinitialize ==
    /\ scans = 1
    /\ scans' = scans + 1
    /\ SetReg(initializeFIX(Reg, triggerTypes, actionTypes, tree, scans + 1))
    /\ UNCHANGED <<tree, triggerTypes, actionTypes, invocations, uncaught,
                   hostVars>>

\* the trigger instances of class ctor listening on element el, in the order
\* their listeners were added
Listeners(el, ctor) ==
    SelectSeq([k \in 1..Len(triggers) |-> k],
              LAMBDA t : /\ triggers[t].element = el
                         /\ triggers[t].ctor = ctor
                         /\ triggers[t].listening)

\* a continuation of a sequential handler is queued: its awaited call has settled
MicrotaskQueued ==
    \E v \in 1..Len(invocations) :
       /\ invocations[v].status = "awaiting"
       /\ invocations[v].calls[Len(invocations[v].calls)].result \in Settled

\* the platform is dispatching an occurrence and has listeners left to call
InDispatch ==
    /\ occurrences # <<>>
    /\ occurrences[1].called < Len(occurrences[1].listeners)

\* one platform occurrence (a click, a submit) of the user on element el: the
\* platform calls the listeners the element had when the dispatch began, one
\* per step in the order they were added; each calls its trigger's invoke, and
\* the platform runs the queued continuations before it calls the next one
Occurrence(el, ctor) ==
    LET begins == occurrences = <<>>
        L      == IF begins THEN Listeners(el, ctor) ELSE occurrences[1].listeners
        k      == IF begins THEN 1 ELSE occurrences[1].called + 1
    IN  /\ IF begins THEN invocations = <<>> /\ L # <<>>
           ELSE /\ occurrences[1].element = el
                /\ k <= Len(L)
                /\ ~MicrotaskQueued
        /\ hasEvent(events, triggers[L[k]].eventName)
        /\ \E outcome \in [1..Len(handlers[getEvent(Reg, triggers[L[k]].eventName)].actions)
                              -> Outcomes] :
              LET inv == invocationOf(L[k], outcome)
              IN  /\ invocations' = Append(invocations, inv)
                  /\ uncaught' = IF inv.status = "threw"
                                 THEN uncaught \cup {[invocation |-> Len(invocations) + 1,
                                                      call |-> Len(inv.calls)]}
                                 ELSE uncaught
        /\ occurrences' = <<[element |-> el, listeners |-> L, called |-> k]>>
        /\ UNCHANGED <<tree, triggerTypes, actionTypes, events, handlers, triggers,
                       actions, warnings, scans, load, formVars, api, page, slider>>

InitRescan ==
    /\ tree \in RescanPages
    /\ triggerTypes = LoadedTriggerTypes
    /\ actionTypes = LoadedActionTypes
    /\ \E early \in {{}, {"go"}} :
          LET r == registerSequential(Registry(<< >>, <<>>, <<>>, <<>>, <<>>), early)
          IN  events = r.events /\ handlers = r.handlers
    /\ triggers = <<>>
    /\ actions = <<>>
    /\ warnings = <<>>
    /\ scans = 0
    /\ invocations = <<>>
    /\ uncaught = {}
    /\ load = NotLoaded
    /\ NoComponents

\* a second scan and the settling of a pending operation are tasks of their
\* own: they run when no dispatch is in progress
NextRescan ==
    \/ Initialize
    \/ ~InDispatch /\ Reinitialize
    \/ \E el \in 1..Len(tree) : Occurrence(el, "TriggerClick")
    \/ \E v \in 1..Len(invocations) :
          \E k \in 1..Len(invocations[v].calls), how \in {"resolved", "rejected"} :
             ~InDispatch /\ Settle(v, k, how)
    \/ \E v \in 1..Len(invocations) : Resume(v)

SpecRescan == InitRescan /\ [][NextRescan]_vars


(***************************************************************************)
(* Registrations and occurrences after the page is loaded: one trigger and *)
(* its event, handlers installed and actions appended between and during   *)
(* invocations. The site may have installed a sequential handler for the   *)
(* event while its modules were loaded, before the scan.                   *)
(***************************************************************************)
ConcurrentPages == { <<TriggerButton, ActionDiv("click", "go")>> }

InitConcurrent ==
    /\ tree \in ConcurrentPages
    /\ triggerTypes = LoadedTriggerTypes
    /\ actionTypes = LoadedActionTypes
    /\ \E early \in {{}, {"go"}} :
          LET r == registerSequential(Registry(<< >>, <<>>, <<>>, <<>>, <<>>), early)
          IN  events = r.events /\ handlers = r.handlers
    /\ triggers = <<>>
    /\ actions = <<>>
    /\ warnings = <<>>
    /\ scans = 0
    /\ invocations = <<>>
    /\ uncaught = {}
    /\ load = NotLoaded
    /\ NoComponents

\* registerEvent called by the running page
InstallHandler(kind) ==
    /\ scans > 0
    /\ RegisterEvent("go", kind)

\* registerProgrammaticAction called by the running page, once
AppendAction ==
    /\ scans > 0
    /\ Programmatic = {}
    /\ RegisterProgrammaticAction("set-status", "go", "ActionSetStatus")

\* the occurrence after the first one, whether or not the first invocation has
\* come to its end
Again(tid) ==
    /\ Len(invocations) = 1
    /\ Invoke(tid)

NextConcurrent ==
    \/ \E kind \in HandlerKinds : InstallHandler(kind)
    \/ AppendAction
    \/ Initialize
    \/ \E tid \in 1..Len(triggers) : Fire(tid)
    \/ \E tid \in 1..Len(triggers) : Again(tid)
    \/ \E v \in 1..Len(invocations) :
          \E k \in 1..Len(invocations[v].calls), how \in {"resolved", "rejected"} :
             Settle(v, k, how)
    \/ \E v \in 1..Len(invocations) : Resume(v)

SpecConcurrent == InitConcurrent /\ [][NextConcurrent]_vars


(***************************************************************************)
(* Registrations made by an action while its event is being invoked        *)
(***************************************************************************)
\* what an action's trigger() does to the registry before it returns or throws
Effects == {"none", "registerEvent", "append"}

applyEffect(reg, eventName, effect) ==
    IF effect = "registerEvent"
    THEN registerEvent(reg, eventName, NewHandler("default", eventName))
    ELSE IF effect = "append"
         THEN registerProgrammaticAction(reg, "set-status", eventName, "ActionSetStatus")
         ELSE reg

\* a loop over the list that reads the length of the list again at every step
RECURSIVE forEachReentrantLive(_, _, _, _, _, _)
forEachReentrantLive(reg, hid, range, outcome, effect, k) ==
    IF k > Len(reg.handlers[hid].actions)
    THEN [calls |-> <<>>, status |-> "returned", reg |-> reg]
    ELSE LET aid   == reg.handlers[hid].actions[k]
             e     == IF k <= range THEN effect[k] ELSE "none"
             o     == IF k <= range THEN outcome[k] ELSE "returned"
             after == IF e = "append"
                      THEN registerProgrammaticAction(reg, "set-status",
                              reg.handlers[hid].eventName, "ActionSetStatus")
                      ELSE reg
         IN  IF o = "threw"
             THEN [calls |-> <<Call(aid, "threw")>>, status |-> "threw", reg |-> after]
             ELSE LET rest == forEachReentrantLive(after, hid, range, outcome, effect, k + 1)
                  IN  [calls |-> <<Call(aid, o)>> \o rest.calls,
                       status |-> rest.status, reg |-> rest.reg]

\* this.actions.forEach(...) of handler hid when the actions called change the
\* registry: the range of the iteration is the length of the list at the start
RECURSIVE forEachReentrant(_, _, _, _, _, _)
forEachReentrant(reg, hid, range, outcome, effect, k) ==
    IF k > range THEN [calls |-> <<>>, status |-> "returned", reg |-> reg]
    ELSE LET aid   == reg.handlers[hid].actions[k]
             after == applyEffect(reg, reg.handlers[hid].eventName, effect[k])
         IN  IF outcome[k] = "threw"
             THEN [calls |-> <<Call(aid, "threw")>>, status |-> "threw", reg |-> after]
             ELSE LET rest == forEachReentrant(after, hid, range, outcome, effect, k + 1)
                  IN  [calls |-> <<Call(aid, outcome[k])>> \o rest.calls,
                       status |-> rest.status, reg |-> rest.reg]

\* the k-th action called has the effect, the others have none
effectAt(n, k, effect) == [i \in 1..n |-> IF i = k THEN effect ELSE "none"]

\* an occurrence on trigger tid whose event has a default handler: TriggerBase.invoke
\* and EventDefault.invoke, the k-th action called making a registration
Reenter(tid, k, effect) ==
    /\ triggers[tid].listening
    /\ hasEvent(events, triggers[tid].eventName)
    /\ LET trig    == triggers[tid]
           hid     == getEvent(Reg, trig.eventName)
           handler == handlers[hid]
           n       == Len(handler.actions)
       IN  /\ handler.kind = "default"
           /\ k \in 1..n
           /\ \E outcome \in [1..n -> Outcomes] :
                 LET run == forEachReentrant(Reg, hid, n, outcome, effectAt(n, k, effect), 1)
                     inv == [trigger |-> tid, handler |-> hid, element |-> trig.element,
                             data |-> composeTriggerData(tree[trig.element], trig),
                             started |-> handler.actions,
                             calls |-> run.calls, status |-> run.status]
                 IN  /\ Len(run.reg.handlers) <= MaxHandlers
                     /\ Cardinality({a \in 1..Len(run.reg.actions) :
                                       run.reg.actions[a].element = NoElement})
                           <= MaxProgrammatic
                     /\ SetReg(run.reg)
                     /\ invocations' = Append(invocations, inv)
                     /\ uncaught' = IF inv.status = "threw"
                                    THEN uncaught \cup {[invocation |-> Len(invocations) + 1,
                                                         call |-> Len(inv.calls)]}
                                    ELSE uncaught
    /\ UNCHANGED <<tree, triggerTypes, actionTypes, scans, hostVars>>

(***************************************************************************)
(* A handler installed for an event while the event's invocation is in     *)
(* flight                                                                  *)
(***************************************************************************)
ReplacePages == { <<TriggerButton, ActionDiv("click", "go"), ActionDiv("set-status", "go")>> }

InitReplace ==
    /\ tree \in ReplacePages
    /\ triggerTypes = LoadedTriggerTypes
    /\ actionTypes = LoadedActionTypes
    /\ \E early \in {{}, {"go"}} :
          LET r == registerSequential(Registry(<< >>, <<>>, <<>>, <<>>, <<>>), early)
          IN  events = r.events /\ handlers = r.handlers
    /\ triggers = <<>>
    /\ actions = <<>>
    /\ warnings = <<>>
    /\ scans = 0
    /\ invocations = <<>>
    /\ uncaught = {}
    /\ load = NotLoaded
    /\ NoComponents

\* registerEvent called by an action of a default handler during the forEach
ReenterReplacing(tid, k) ==
    /\ invocations = <<>>
    /\ Reenter(tid, k, "registerEvent")

\* registerEvent called while a sequential invocation is suspended
InstallInFlight(kind) ==
    /\ \E v \in 1..Len(invocations) : invocations[v].status = "awaiting"
    /\ RegisterEvent("go", kind)

NextReplace ==
    \/ Initialize
    \/ \E tid \in 1..Len(triggers) : Fire(tid)
    \/ \E tid \in 1..Len(triggers), k \in 1..Len(actions) : ReenterReplacing(tid, k)
    \/ \E kind \in HandlerKinds : InstallInFlight(kind)
    \/ \E v \in 1..Len(invocations) :
          \E k \in 1..Len(invocations[v].calls), how \in {"resolved", "rejected"} :
             Settle(v, k, how)
    \/ \E v \in 1..Len(invocations) : Resume(v)

SpecReplace == InitReplace /\ [][NextReplace]_vars


(***************************************************************************)
(* An action appended to an event's list while the event's invocation is   *)
(* in progress                                                             *)
(***************************************************************************)
\* registerProgrammaticAction called by an action of a default handler during
\* the forEach of the first occurrence
ReenterAppending(tid, k) ==
    /\ invocations = <<>>
    /\ Reenter(tid, k, "append")

\* registerProgrammaticAction called while a sequential invocation is suspended
AppendInFlight ==
    /\ \E v \in 1..Len(invocations) : invocations[v].status = "awaiting"
    /\ Programmatic = {}
    /\ RegisterProgrammaticAction("set-status", "go", "ActionSetStatus")

NextAppend ==
    \/ Initialize
    \/ \E tid \in 1..Len(triggers) : Fire(tid)
    \/ \E tid \in 1..Len(triggers), k \in 1..Len(actions) : ReenterAppending(tid, k)
    \/ AppendInFlight
    \/ \E tid \in 1..Len(triggers) : Again(tid)
    \/ \E v \in 1..Len(invocations) :
          \E k \in 1..Len(invocations[v].calls), how \in {"resolved", "rejected"} :
             Settle(v, k, how)
    \/ \E v \in 1..Len(invocations) : Resume(v)

SpecAppend == InitConcurrent /\ [][NextAppend]_vars


(***************************************************************************)
(* Chained events: ActionClick clicks its element, whose click listeners   *)
(* are TriggerClick instances that invoke their events inside the call     *)
(***************************************************************************)
MaxOccurrences == 3

\* one call of action.trigger in an occurrence: the nesting depth, the events
\* being invoked from the outermost to the one calling, the action, the result
Entry(depth, path, aid, result) ==
    [depth |-> depth, path |-> path, action |-> aid, result |-> result]

RECURSIVE clickListeners(_, _, _, _, _, _, _)
RECURSIVE forEachChained(_, _, _, _, _, _, _)

\* a handler with a guard: an event that is being invoked is not invoked again
invokeChainedGuarded(tid, path, outcome, depth, clicking, made) ==
    LET name    == triggers[tid].eventName
        handler == handlers[getEvent(Reg, name)]
    IN  IF \E i \in 1..Len(path) : path[i] = name
        THEN [trace |-> <<>>, status |-> "returned"]
        ELSE IF Len(handler.actions) = 0 THEN [trace |-> <<>>, status |-> "returned"]
             ELSE forEachChained(handler.actions, Append(path, name), outcome, depth, 1,
                                 clicking, made)

\* TriggerBase.invoke and EventDefault.invoke of trigger tid at a nesting depth;
\* clicking is the set of elements whose click() is in progress, made the number
\* of calls of action.trigger the occurrence has made so far, and outcome[n]
\* what the n-th of these calls does when it is not a call of ActionClick
invokeChained(tid, path, outcome, depth, clicking, made) ==
    LET name    == triggers[tid].eventName
        handler == handlers[getEvent(Reg, name)]
    IN  IF Len(handler.actions) = 0 THEN [trace |-> <<>>, status |-> "returned"]
        ELSE forEachChained(handler.actions, Append(path, name), outcome, depth, 1,
                            clicking, made)

\* the dispatch of a click: the click listeners run one after the other; an
\* exception thrown by a listener is reported by the platform and the next
\* listener runs
clickListeners(L, path, outcome, depth, j, clicking, made) ==
    IF j > Len(L) THEN [trace |-> <<>>, status |-> "returned"]
    ELSE LET first == invokeChained(L[j], path, outcome, depth, clicking, made)
             rest  == clickListeners(L, path, outcome, depth, j + 1, clicking,
                                     made + Len(first.trace))
         IN  [trace |-> first.trace \o rest.trace, status |-> rest.status]

\* ActionClick.trigger: this.element?.click(). HTMLElement.click() is the
\* platform's (HTML Standard, "click in progress flag"): it returns at once when
\* a click() of the element is in progress, else it sets the flag, dispatches
\* the click to the listeners and unsets the flag
actionClick(aid, path, outcome, depth, clicking, made) ==
    IF actions[aid].element = NoElement THEN [trace |-> <<>>, status |-> "returned"]
    ELSE IF actions[aid].element \in clicking THEN [trace |-> <<>>, status |-> "returned"]
    ELSE clickListeners(Listeners(actions[aid].element, "TriggerClick"),
                        path, outcome, depth + 1, 1,
                        clicking \cup {actions[aid].element}, made)

\* this.actions.forEach(action => action.trigger(...)) when actions click: call
\* number made + 1 of the occurrence is the call of list[k]; a call that throws
\* ends the forEach and the invoke
forEachChained(list, path, outcome, depth, k, clicking, made) ==
    IF k > Len(list) THEN [trace |-> <<>>, status |-> "returned"]
    ELSE IF actions[list[k]].ctor = "ActionClick"
         THEN LET nested == actionClick(list[k], path, outcome, depth, clicking, made + 1)
                  rest   == forEachChained(list, path, outcome, depth, k + 1, clicking,
                                           made + 1 + Len(nested.trace))
              IN  [trace |-> <<Entry(depth, path, list[k], "returned")>>
                               \o nested.trace \o rest.trace,
                   status |-> rest.status]
         ELSE IF outcome[made + 1] = "threw"
              THEN [trace |-> <<Entry(depth, path, list[k], "threw")>>, status |-> "threw"]
              ELSE LET rest == forEachChained(list, path, outcome, depth, k + 1, clicking,
                                              made + 1)
                   IN  [trace |-> <<Entry(depth, path, list[k], outcome[made + 1])>>
                                    \o rest.trace,
                        status |-> rest.status]

ClickElement(attrs) == Element("div", attrs, <<>>)

ChainPages ==
    { <<ClickElement(<<Attr(<<"trigger", COLON, "click">>, "validate")>>),
        ClickElement(<<Attr(<<"action", COLON, "click">>, "validate"),
                       Attr(<<"trigger", COLON, "click">>, "submit")>>),
        ClickElement(<<Attr(<<"action", COLON, "click">>, "submit")>>)>>,
      <<ClickElement(<<Attr(<<"trigger", COLON, "click">>, "validate")>>),
        ClickElement(<<Attr(<<"action", COLON, "click">>, "validate"),
                       Attr(<<"trigger", COLON, "click">>, "submit")>>),
        ActionDiv("set-status", "submit")>>,
      <<ClickElement(<<Attr(<<"trigger", COLON, "click">>, "go"),
                       Attr(<<"action", COLON, "click">>, "go")>>)>>,
      <<ClickElement(<<Attr(<<"trigger", COLON, "click">>, "go"),
                       Attr(<<"action", COLON, "click">>, "e2")>>),
        ClickElement(<<Attr(<<"trigger", COLON, "click">>, "e2"),
                       Attr(<<"action", COLON, "click">>, "go")>>),
        ActionDiv("set-status", "e2")>>,
      <<ActionDiv("set-status", "go"),
        ClickElement(<<Attr(<<"trigger", COLON, "click">>, "go"),
                       Attr(<<"action", COLON, "click">>, "go")>>)>>,
      <<TriggerButton, ActionDiv("click", "go"), ActionDiv("set-status", "go")>> }

InitChain ==
    /\ tree \in ChainPages
    /\ triggerTypes = LoadedTriggerTypes
    /\ actionTypes = LoadedActionTypes
    /\ events = << >>
    /\ handlers = <<>>
    /\ triggers = <<>>
    /\ actions = <<>>
    /\ warnings = <<>>
    /\ scans = 0
    /\ invocations = <<>>
    /\ uncaught = {}
    /\ load = NotLoaded
    /\ NoComponents

\* a user's click on element el of the page (no click() of an element is in
\* progress); each call of an action other than ActionClick returns, throws or
\* returns a promise, whatever the same action did in another call. The click
\* leads to the most calls when every call returns: a throw only cuts calls
Click(el) ==
    /\ scans > 0
    /\ Len(occurrences) < MaxOccurrences
    /\ Listeners(el, "TriggerClick") # <<>>
    /\ LET L    == Listeners(el, "TriggerClick")
           most == Len(clickListeners(L, <<>>, [n \in Nat |-> "returned"], 1, 1, {}, 0).trace)
       IN  \E outcome \in [1..most -> Outcomes] :
              LET run == clickListeners(L, <<>>, outcome, 1, 1, {}, 0)
              IN  occurrences' = Append(occurrences,
                                        [element |-> el, trace |-> run.trace,
                                         status |-> run.status])
    /\ UNCHANGED <<engineVars, load, formVars, api, page, slider>>

NextChain ==
    \/ Initialize
    \/ \E el \in 1..Len(tree) : Click(el)

SpecChain == InitChain /\ [][NextChain]_vars


(***************************************************************************)
(* A scan in which one binding throws                                      *)
(***************************************************************************)
ThrowPages ==
    { <<TriggerButton, ActionDiv("click", "go"), ActionDiv("set-status", "go")>>,
      <<TriggerButton,
        ClickElement(<<Attr(<<"trigger", COLON, "click">>, "e2")>>),
        ActionDiv("click", "go"), ActionDiv("set-status", "e2")>>,
      <<ActionDiv("set-status", "go"), TriggerButton, ActionDiv("click", "e2")>> }

\* no binding throws, or one of the collected bindings does
Faults ==
    {NoFault} \cup
    [ns : {NsTrigger, NsAction}, k : 1..3, at : {"constructor", "init"}, wired : BOOLEAN]

InitThrow ==
    /\ tree \in ThrowPages
    /\ triggerTypes = LoadedTriggerTypes
    /\ actionTypes = LoadedActionTypes
    /\ events = << >>
    /\ handlers = <<>>
    /\ triggers = <<>>
    /\ actions = <<>>
    /\ warnings = <<>>
    /\ scans = 0
    /\ invocations = <<>>
    /\ uncaught = {}
    /\ load = NotLoaded
    /\ NoComponents

\* initialize(): the tree scan, in which the binding named by fault throws; the
\* exception leaves initializeFIX
InitializeThrowing(fault) ==
    /\ scans = 0
    /\ fault.ns = NsTrigger => fault.k <= Len(triggerElements(tree))
    /\ fault.ns = NsAction => fault.k <= Len(actionElements(tree)) /\ ~fault.wired
    /\ fault.at = "constructor" => ~fault.wired
    /\ LET run == initializeFIXThrowing(Reg, triggerTypes, actionTypes, tree, 1, fault)
       IN  /\ SetReg(run.reg)
           /\ uncaught' = IF run.threw THEN uncaught \cup {fault} ELSE uncaught
    /\ scans' = 1
    /\ UNCHANGED <<tree, triggerTypes, actionTypes, invocations, hostVars>>

NextThrow ==
    \/ \E fault \in Faults : InitializeThrowing(fault)
    \/ \E tid \in 1..Len(triggers) : Fire(tid)
    \/ \E v \in 1..Len(invocations) :
          \E k \in 1..Len(invocations[v].calls), how \in {"resolved", "rejected"} :
             Settle(v, k, how)

SpecThrow == InitThrow /\ [][NextThrow]_vars


(***************************************************************************)
(* Submit payloads: forms with their controls and attributes, scanned and  *)
(* submitted                                                               *)
(***************************************************************************)
\* the controls of a form, in form order
SubmitInputs ==
    { <<>>,
      <<Input("email", "a", FALSE)>>,
      <<Input("doc", "f", TRUE)>>,
      <<Input("tag", "x", FALSE), Input("doc", "f", TRUE), Input("tag", "y", FALSE)>>,
      <<Input("tag", "x", FALSE), Input("email", "a", FALSE), Input("tag", "y", FALSE),
        Input("tag", "z", FALSE)>>,
      <<Input("constructor", "x", FALSE)>>,
      <<Input("toString", "x", FALSE), Input("toString", "y", FALSE)>>,
      <<Input("valueOf", "x", FALSE)>>,
      <<Input("__proto__", "x", FALSE), Input("push", "y", FALSE),
        Input("__proto__", "z", FALSE), Input("length", "w", FALSE)>>,
      [i \in 1..10 |-> Input("__proto__", "p" \o IndexName(i - 1), FALSE)]
         \o <<Input("10", "w", FALSE), Input("length", "v", FALSE)>> }

\* the attributes a form may carry besides trigger:submit
SubmitAttributes ==
    << Attr(Name4("trigger", "submit", "data", "id"), "7"),
       Attr(Name4("trigger", "submit", "data", "fields"), "zz"),
       Attr(Name4("trigger", "submit", "data", "headers"), "hh"),
       Attr(Name4("trigger", "submit", "header", "authorization"), "Bearer"),
       Attr(Name4("trigger", "submit", "header", "x-trace"), "1"),
       Attr(Name4("trigger", "submit", "header", "__proto__"), "1") >>

\* the attributes of SubmitAttributes at the positions in chosen, in their order
Chosen(chosen) ==
    SelectSeq(SubmitAttributes,
              LAMBDA a : \E k \in chosen : SubmitAttributes[k] = a)

InitSubmit ==
    /\ \E inputs \in SubmitInputs, chosen \in SUBSET (1..Len(SubmitAttributes)) :
          tree = <<Element("form",
                           <<Attr(Name2("trigger", "submit"), "e1")>> \o Chosen(chosen),
                           inputs)>>
    /\ triggerTypes = LoadedTriggerTypes
    /\ actionTypes = LoadedActionTypes
    /\ events = << >>
    /\ handlers = <<>>
    /\ triggers = <<>>
    /\ actions = <<>>
    /\ warnings = <<>>
    /\ scans = 0
    /\ invocations = <<>>
    /\ uncaught = {}
    /\ load = NotLoaded
    /\ NoComponents

NextSubmit ==
    \/ Initialize
    \/ \E tid \in 1..Len(triggers) : Fire(tid)

SpecSubmit == InitSubmit /\ [][NextSubmit]_vars


(***************************************************************************)
(* Progress of an invocation: the dispatch of Spec, where the continuation *)
(* of a suspended handler runs once the awaited operation has settled (the *)
(* job queue of the host); whether a pending operation settles at all is   *)
(* up to the action, so no fairness is assumed of Settle.                  *)
(***************************************************************************)
SpecLive ==
    /\ Init
    /\ [][Next]_vars
    /\ WF_vars(\E v \in 1..Len(invocations) : Resume(v))


(***************************************************************************)
(* WebflowForm: the display states of a form block and its submit handler. *)
(* form.element is what the constructor is given: "wrapper" (a .w-form div *)
(* holding a form), "form" (a form inside a .w-form div), "empty-wrapper", *)
(* "bare-form" or "div"; done and fail tell whether the wrapper holds a    *)
(* .w-form-done and a .w-form-fail element; style is the inline display of *)
(* the form, the success message and the error message.                   *)
(***************************************************************************)
MaxListeners == 1

MaxSubmissions == 1

FormState == {"default", "success", "error"}

\* validate, and the same tests in the constructor
validate(element) == element \in {"wrapper", "form"}

showDefault(f) ==
    [f EXCEPT !.style.form = "block",
              !.style.success = IF f.done THEN "none" ELSE @,
              !.style.error = IF f.fail THEN "none" ELSE @]

showSuccess(f) ==
    [f EXCEPT !.style.form = "none",
              !.style.success = IF f.done THEN "block" ELSE @,
              !.style.error = IF f.fail THEN "none" ELSE @]

\* an error display that leaves the success message as it is
showErrorOnly(f) ==
    [f EXCEPT !.style.form = "block",
              !.style.error = IF f.fail THEN "block" ELSE @]

showError(f) ==
    [f EXCEPT !.style.form = "block",
              !.style.success = IF f.done THEN "none" ELSE @,
              !.style.error = IF f.fail THEN "block" ELSE @]

setState(f, state) ==
    CASE state = "default" -> showDefault(f)
      [] state = "success" -> showSuccess(f)
      [] state = "error"   -> showError(f)
      [] OTHER             -> f

\* new WebflowForm(element)
constructor(f) ==
    IF ~validate(f.element) THEN [f EXCEPT !.threw = TRUE]
    ELSE setState([f EXCEPT !.constructed = TRUE,
                            !.autoMode = (f.modeAttr # "false")], "default")

reset(f) == setState([f EXCEPT !.filled = FALSE], "default")

\* one run of the submit listener: where it stands, the response it got and
\* what it has done so far
Submission(pc, response, log) == [pc |-> pc, response |-> response, log |-> log]

Step(f, sub) == [form |-> f, sub |-> sub]

\* the listener from the submit event to its first await
listenerStart(pre) ==
    IF pre = "threw"
    THEN Submission("rejected", "none", <<"preventDefault", "preSubmit">>)
    ELSE Submission("requesting", "none", <<"preventDefault", "preSubmit", "apiRequest">>)

\* a catch block that shows the error whatever autoMode says
catchBlockAlways(f, sub, onError) ==
    Step(setState(f, "error"),
         [sub EXCEPT !.log = @ \o <<"setState:error">> \o <<"onError">>,
                     !.pc = IF onError = "threw" THEN "rejected" ELSE "done"])

\* the catch block; onError is the outcome of the onError callback
catchBlock(f, sub, onError) ==
    Step(IF f.autoMode THEN setState(f, "error") ELSE f,
         [sub EXCEPT !.log = @ \o (IF f.autoMode THEN <<"setState:error">> ELSE <<>>)
                               \o <<"onError">>,
                     !.pc = IF onError = "threw" THEN "rejected" ELSE "done"])

\* the listener once apiRequest has settled: an ok response, a response that
\* is not ok, or a rejection; onSuccess and onError are the outcomes of the
\* callbacks (an absent callback counts as one that returns)
onResponse(f, sub, response, onSuccess, onError) ==
    IF response = "ok"
    THEN LET f1 == IF f.autoMode THEN setState(f, "success") ELSE f
             s1 == [sub EXCEPT !.response = response,
                               !.log = @ \o (IF f.autoMode THEN <<"setState:success">>
                                                           ELSE <<>>)
                                         \o <<"onSuccess">>]
         IN  IF onSuccess = "threw" THEN catchBlock(f1, s1, onError[1])
             ELSE Step(f1, [s1 EXCEPT !.pc = IF onSuccess = "pending"
                                             THEN "onSuccess" ELSE "done"])
    ELSE IF response = "not-ok"
         THEN Step(f, [sub EXCEPT !.response = response, !.pc = "text"])
         ELSE catchBlock(f, [sub EXCEPT !.response = response], onError[1])

\* the listener once response.text() has settled
onText(f, sub, how, onError) ==
    IF how = "rejected" THEN catchBlock(f, sub, onError[1])
    ELSE LET f1 == IF f.autoMode THEN setState(f, "error") ELSE f
             s1 == [sub EXCEPT !.log = @ \o (IF f.autoMode THEN <<"setState:error">>
                                                           ELSE <<>>)
                                         \o <<"onError">>]
         IN  IF onError[1] = "threw" THEN catchBlock(f1, s1, onError[2])
             ELSE Step(f1, [s1 EXCEPT !.pc = "done"])

\* the listener once the promise returned by onSuccess has settled
onSuccessSettled(f, sub, how, onError) ==
    IF how = "rejected" THEN catchBlock(f, sub, onError[1])
    ELSE Step(f, [sub EXCEPT !.pc = "done"])

engineIdle == UNCHANGED <<engineVars, load, api, occurrences, page, slider>>

Construct ==
    /\ form.element # "none"
    /\ ~form.constructed /\ ~form.threw
    /\ form' = constructor(form)
    /\ UNCHANGED submissions
    /\ engineIdle

SetState(state) ==
    /\ form.constructed
    /\ form' = setState(form, state)
    /\ UNCHANGED submissions
    /\ engineIdle

Reset ==
    /\ form.constructed
    /\ form' = reset(form)
    /\ UNCHANGED submissions
    /\ engineIdle

\* the public autoMode field is assigned
SetAutoMode(b) ==
    /\ form.constructed
    /\ form.autoMode # b
    /\ form' = [form EXCEPT !.autoMode = b]
    /\ UNCHANGED submissions
    /\ engineIdle

\* the visitor types into the form
Fill ==
    /\ form.element # "none"
    /\ ~form.filled
    /\ form' = [form EXCEPT !.filled = TRUE]
    /\ UNCHANGED submissions
    /\ engineIdle

\* onSubmit(endpoint, options): one more submit listener
OnSubmit ==
    /\ form.constructed
    /\ form.listeners < MaxListeners
    /\ form' = [form EXCEPT !.listeners = @ + 1]
    /\ UNCHANGED submissions
    /\ engineIdle

\* a submit event: every listener runs up to its first await
Submit ==
    /\ form.listeners > 0
    /\ Len(submissions) + form.listeners <= MaxSubmissions
    /\ \E pre \in [1..form.listeners -> {"returned", "threw"}] :
          submissions' = submissions \o [k \in 1..form.listeners |-> listenerStart(pre[k])]
    /\ UNCHANGED form
    /\ engineIdle

Continue(i, step) ==
    /\ form' = step.form
    /\ submissions' = [submissions EXCEPT ![i] = step.sub]
    /\ engineIdle

CallbackOutcomes == [1..2 -> {"returned", "threw"}]

Respond(i) ==
    /\ submissions[i].pc = "requesting"
    /\ \E response \in {"ok", "not-ok", "failed"},
          onSuccess \in {"returned", "threw", "pending"}, onError \in CallbackOutcomes :
          Continue(i, onResponse(form, submissions[i], response, onSuccess, onError))

TextSettles(i) ==
    /\ submissions[i].pc = "text"
    /\ \E how \in {"resolved", "rejected"}, onError \in CallbackOutcomes :
          Continue(i, onText(form, submissions[i], how, onError))

OnSuccessSettles(i) ==
    /\ submissions[i].pc = "onSuccess"
    /\ \E how \in {"resolved", "rejected"}, onError \in CallbackOutcomes :
          Continue(i, onSuccessSettled(form, submissions[i], how, onError))

\* a page with one form block, before the component is constructed
InitForm ==
    /\ tree = <<>>
    /\ triggerTypes = LoadedTriggerTypes
    /\ actionTypes = LoadedActionTypes
    /\ events = << >>
    /\ handlers = <<>>
    /\ triggers = <<>>
    /\ actions = <<>>
    /\ warnings = <<>>
    /\ scans = 0
    /\ invocations = <<>>
    /\ uncaught = {}
    /\ load = NotLoaded
    /\ \E element \in {"wrapper", "form", "empty-wrapper", "bare-form", "div"},
          modeAttr \in {"absent", "true", "false"}, done \in BOOLEAN, fail \in BOOLEAN :
          form = [NoForm EXCEPT !.element = element, !.modeAttr = modeAttr,
                                !.done = done, !.fail = fail]
    /\ submissions = <<>>
    /\ api = NoApi
    /\ occurrences = <<>>
    /\ page = NoPage
    /\ slider = NoSlider

NextForm ==
    \/ Construct
    \/ \E state \in FormState : SetState(state)
    \/ Reset
    \/ \E b \in BOOLEAN : SetAutoMode(b)
    \/ Fill
    \/ OnSubmit
    \/ Submit
    \/ \E i \in 1..Len(submissions) : Respond(i)
    \/ \E i \in 1..Len(submissions) : TextSettles(i)
    \/ \E i \in 1..Len(submissions) : OnSuccessSettles(i)

SpecForm == InitForm /\ [][NextForm]_vars


(***************************************************************************)
(* apiRequest: the headers of a request and whether it is sent at all.     *)
(* Option values are "#undefined" when absent. A header value of the caller *)
(* is the sequence of its UTF-16 code units; the values apiRequest sets are *)
(* sequences of parts, <<"Bearer", t>> for `Bearer ${t}`.                   *)
(***************************************************************************)
MaxCalls == 1

\* JavaScript truthiness of an option or token value
Truthy(v) == v \notin {Undefined, "", "false", "null"}

Bearer(token) == <<"Bearer", token>>

\* a header name as new Headers(...).forEach reports it: every ASCII upper-case
\* letter is replaced by its lower-case letter
Lower(key) ==
    LET upper == <<"A", "B", "C", "D", "E", "F", "G", "H", "I", "J", "K", "L", "M",
                   "N", "O", "P", "Q", "R", "S", "T", "U", "V", "W", "X", "Y", "Z">>
        lower == <<"a", "b", "c", "d", "e", "f", "g", "h", "i", "j", "k", "l", "m",
                   "n", "o", "p", "q", "r", "s", "t", "u", "v", "w", "x", "y", "z">>
        RECURSIVE from(_)
        from(i) ==
            IF i > Len(key) THEN ""
            ELSE LET c == SubSeq(key, i, i)
                 IN  (IF \E j \in 1..26 : upper[j] = c
                      THEN lower[CHOOSE j \in 1..26 : upper[j] = c]
                      ELSE c) \o from(i + 1)
    IN  from(1)

\* headers[key] = value on the object literal: a string assigned to __proto__
\* goes to the setter of Object.prototype, which ignores it, and makes no
\* property
SetHeader(headers, key, value) ==
    IF key = "__proto__" THEN headers
    ELSE [k \in DOMAIN headers \cup {key} |-> IF k = key THEN value ELSE headers[k]]

\* headers = {} and the copy of options.headers into it. options.headers is the
\* sequence of its entries, in property order. new Headers(...) throws a
\* TypeError when a name is not an HTTP token (empty, or with a character that
\* is no letter, digit or one of !#$%&'*+-.^_|~ or the grave accent, which no
\* name here contains), and when a value has a code unit above 255 or, once
\* the HTTP white space (TAB, LF, CR, SP) at its ends is removed, a NUL, LF or
\* CR. forEach reports each name in lower case with the values of the entries
\* of that name, ends removed, joined by ", " (44, 32) in their order; only the
\* entries of set-cookie are reported one by one, so that the last of them
\* stays in headers
copyHeaders(given) ==
    LET tchar == {"a", "b", "c", "d", "e", "f", "g", "h", "i", "j", "k", "l", "m",
                  "n", "o", "p", "q", "r", "s", "t", "u", "v", "w", "x", "y", "z",
                  "A", "B", "C", "D", "E", "F", "G", "H", "I", "J", "K", "L", "M",
                  "N", "O", "P", "Q", "R", "S", "T", "U", "V", "W", "X", "Y", "Z",
                  "0", "1", "2", "3", "4", "5", "6", "7", "8", "9",
                  "!", "#", "$", "%", "&", "'", "*", "+", "-", ".", "^", "_", "|", "~"}
        IsToken(name) ==
            /\ Len(name) > 0
            /\ \A i \in 1..Len(name) : SubSeq(name, i, i) \in tchar
        RECURSIVE first(_, _)
        first(value, i) ==
            IF i <= Len(value) /\ value[i] \in {9, 10, 13, 32}
            THEN first(value, i + 1) ELSE i
        RECURSIVE last(_, _)
        last(value, j) ==
            IF j >= 1 /\ value[j] \in {9, 10, 13, 32} THEN last(value, j - 1) ELSE j
        normalize(value) == SubSeq(value, first(value, 1), last(value, Len(value)))
        IsValue(value) ==
            /\ \A i \in 1..Len(value) : value[i] <= 255
            /\ \A i \in 1..Len(normalize(value)) :
                  normalize(value)[i] \notin {0, 10, 13}
        names == [i \in 1..Len(given) |-> Lower(given[i].name)]
        RECURSIVE combined(_, _)
        combined(k, i) ==
            IF i = 0 THEN <<>>
            ELSE LET before == combined(k, i - 1)
                 IN  IF names[i] # k THEN before
                     ELSE IF k # "set-cookie" /\ \E j \in 1..(i - 1) : names[j] = k
                          THEN before \o <<44, 32>> \o normalize(given[i].value)
                          ELSE normalize(given[i].value)
        RECURSIVE copy(_, _)
        copy(headers, reported) ==
            IF reported = {} THEN headers
            ELSE LET k == CHOOSE k \in reported : TRUE
                 IN  copy(SetHeader(headers, k, combined(k, Len(given))), reported \ {k})
    IN  IF \E i \in 1..Len(given) :
              ~IsToken(given[i].name) \/ ~IsValue(given[i].value)
        THEN [threw |-> TRUE, headers |-> << >>]
        ELSE [threw |-> FALSE,
              headers |-> copy(<< >>, {names[i] : i \in 1..Len(given)})]

\* an authentication branch that does not look at config.apiRequiresAuth
authBranchAnyConfig(options, apiRequiresAuth) ==
    IF Truthy(options.bearerToken) THEN "manual"
    ELSE IF Truthy(options.useAuth) THEN "memberstack"
    ELSE "none"

\* which branch of the authentication if/else chain runs
authBranch(options, apiRequiresAuth) ==
    IF Truthy(options.bearerToken) THEN "manual"
    ELSE IF Truthy(options.useAuth) /\ apiRequiresAuth THEN "memberstack"
    ELSE "none"

\* body formatting and the fetch call: the request handed to fetch
sendRequest(call, headers) ==
    LET h == IF Truthy(call.options.body) /\ call.options.body # "FormData"
             THEN SetHeader(headers, "Content-Type", <<"application/json">>)
             ELSE headers
    IN  [call EXCEPT !.pc = "fetching",
                     !.fetch = <<[method |-> IF Truthy(call.options.method)
                                             THEN call.options.method ELSE "POST",
                                  headers |-> h,
                                  body |-> call.options.body]>>]

ApiCall(options) == [options |-> options, pc |-> "start", token |-> Undefined,
                     headers |-> << >>, fetch |-> <<>>]

\* apiRequest from its call to its first await; a throw of new Headers(...)
\* rejects the promise of the call before the authentication branch is reached
apiRequestStart(options, apiRequiresAuth) ==
    LET call    == ApiCall(options)
        copy    == copyHeaders(options.headers)
        headers == copy.headers
        branch  == authBranch(options, apiRequiresAuth)
    IN  IF copy.threw THEN [call EXCEPT !.pc = "rejected"]
        ELSE IF branch = "manual"
        THEN sendRequest(call, SetHeader(headers, "Authorization",
                                         Bearer(options.bearerToken)))
        ELSE IF branch = "memberstack"
             THEN [call EXCEPT !.pc = "token", !.token = "pending", !.headers = headers]
             ELSE sendRequest(call, headers)

\* apiRequest once getCurrentMemberToken has settled: token is its value, or
\* "#rejected" when it throws
apiRequestAfterToken(call, token) ==
    IF token = "#rejected" \/ ~Truthy(token)
    THEN [call EXCEPT !.pc = "rejected", !.token = token]
    ELSE sendRequest([call EXCEPT !.token = token],
                     SetHeader(call.headers, "Authorization", Bearer(token)))

apiIdle == UNCHANGED <<engineVars, load, formVars, occurrences, page, slider>>

\* an entry of options.headers
Header(name, value) == [name |-> name, value |-> value]

\* options.headers; absent and {} both copy nothing. The values are "Basic b",
\* " 1", "text/plain", "1" and "2", "1", "a" and "b", "x", and "a", LF, "b"
HeaderOptions ==
    { <<>>,
      <<Header("Authorization", <<66, 97, 115, 105, 99, 32, 98>>)>>,
      <<Header("X-Trace", <<32, 49>>)>>,
      <<Header("Content-Type", <<116, 101, 120, 116, 47, 112, 108, 97, 105, 110>>)>>,
      <<Header("X-TRACE", <<49>>), Header("x-trace", <<50>>)>>,
      <<Header("X Trace", <<49>>)>>,
      <<Header("Set-Cookie", <<97>>), Header("set-cookie", <<98>>)>>,
      <<Header("__proto__", <<120>>)>>,
      <<Header("X-Trace", <<97, 10, 98>>)>> }

ApiOptions == [bearerToken : {Undefined, "", "manual"},
               useAuth : {Undefined, "false", "true"},
               headers : HeaderOptions,
               body : {Undefined, "FormData", "object"},
               method : {Undefined}]

ApiRequest(options) ==
    /\ Len(api.calls) < MaxCalls
    /\ api' = [api EXCEPT !.calls = Append(@, apiRequestStart(options, api.apiRequiresAuth))]
    /\ apiIdle

TokenSettles(i, token) ==
    /\ api.calls[i].pc = "token"
    /\ api' = [api EXCEPT !.calls[i] = apiRequestAfterToken(@, token)]
    /\ apiIdle

\* fetch resolves with a response or rejects
FetchSettles(i, how) ==
    /\ api.calls[i].pc = "fetching"
    /\ api' = [api EXCEPT !.calls[i].pc = IF how = "resolved" THEN "returned"
                                          ELSE "rejected"]
    /\ apiIdle

InitApi ==
    /\ tree = <<>>
    /\ triggerTypes = LoadedTriggerTypes
    /\ actionTypes = LoadedActionTypes
    /\ events = << >>
    /\ handlers = <<>>
    /\ triggers = <<>>
    /\ actions = <<>>
    /\ warnings = <<>>
    /\ scans = 0
    /\ invocations = <<>>
    /\ uncaught = {}
    /\ load = NotLoaded
    /\ form = NoForm
    /\ submissions = <<>>
    /\ \E b \in BOOLEAN : api = [NoApi EXCEPT !.apiRequiresAuth = b]
    /\ occurrences = <<>>
    /\ page = NoPage
    /\ slider = NoSlider

NextApi ==
    \/ \E options \in ApiOptions : ApiRequest(options)
    \/ \E i \in 1..Len(api.calls), token \in {"jwt", "null", "", "#rejected"} :
          TokenSettles(i, token)
    \/ \E i \in 1..Len(api.calls), how \in {"resolved", "rejected"} : FetchSettles(i, how)

SpecApi == InitApi /\ [][NextApi]_vars


(***************************************************************************)
(* The add-listing page: onLoad fetches the member token and writes the    *)
(* authorization header attribute to the forms with trigger:submit         *)
(***************************************************************************)
\* element.setAttribute(name, value) on the element's attribute list
setAttribute(attrs, a) ==
    IF \E k \in 1..Len(attrs) : attrs[k].name = a.name
    THEN [k \in 1..Len(attrs) |-> IF attrs[k].name = a.name THEN a ELSE attrs[k]]
    ELSE Append(attrs, a)

\* document.querySelectorAll('[trigger\\:submit]')
querySubmitForms(t) ==
    {i \in 1..Len(t) :
        \E k \in 1..Len(t[i].attrs) : t[i].attrs[k].name = Name2("trigger", "submit")}

\* trigger:submit:header:authorization = `Bearer ${token}`
AuthorizationAttr(token) ==
    Attr(Name4("trigger", "submit", "header", "authorization"), Bearer(token))

\* an onLoad that writes the header whatever the token and the setting are
onLoadResumeUnguarded(t, forms, token, requiresAuth) ==
    [i \in 1..Len(t) |->
        IF i \in forms
        THEN [t[i] EXCEPT !.attrs = setAttribute(@, AuthorizationAttr(token))]
        ELSE t[i]]

\* AddListingPage.onLoad after `await getCurrentMemberToken()`
onLoadResume(t, forms, token, requiresAuth) ==
    IF Truthy(token) /\ requiresAuth
    THEN [i \in 1..Len(t) |->
             IF i \in forms
             THEN [t[i] EXCEPT !.attrs = setAttribute(@, AuthorizationAttr(token))]
             ELSE t[i]]
    ELSE t

AddListingPages ==
    { <<Element("form", <<Attr(Name2("trigger", "submit"), "e1")>>,
                <<Input("title", "a", FALSE)>>),
        ActionDiv("set-status", "e1")>>,
      <<Element("form", <<Attr(Name2("trigger", "submit"), "e1"),
                          Attr(Name4("trigger", "submit", "data", "id"), "7")>>,
                <<Input("title", "a", FALSE)>>),
        Element("div", <<Attr(Name2("trigger", "submit"), "e2")>>, <<>>),
        Element("form", <<>>, <<>>)>> }

InitAddListing ==
    /\ tree \in AddListingPages
    /\ triggerTypes = LoadedTriggerTypes
    /\ actionTypes = LoadedActionTypes
    /\ events = << >>
    /\ handlers = <<>>
    /\ triggers = <<>>
    /\ actions = <<>>
    /\ warnings = <<>>
    /\ scans = 0
    /\ invocations = <<>>
    /\ uncaught = {}
    /\ load = NotLoaded
    /\ form = NoForm
    /\ submissions = <<>>
    /\ \E b \in BOOLEAN : api = [NoApi EXCEPT !.apiRequiresAuth = b]
    /\ occurrences = <<>>
    /\ page = NoPage
    /\ slider = NoSlider

\* exec on the add-listing route: initializeFIX(), then execRoute() runs the
\* page's onLoad up to its await
ExecAddListing ==
    /\ scans = 0
    /\ scans' = 1
    /\ SetReg(initializeFIX(Reg, triggerTypes, actionTypes, tree, 1))
    /\ page' = [page EXCEPT !.onLoad = "awaiting", !.forms = querySubmitForms(tree)]
    /\ UNCHANGED <<tree, triggerTypes, actionTypes, invocations, uncaught, load,
                   formVars, api, occurrences, slider>>

\* getCurrentMemberToken() settles: a token, null, or a rejection
MemberTokenSettles(token) ==
    /\ page.onLoad = "awaiting"
    /\ IF token = "#rejected"
       THEN /\ page' = [page EXCEPT !.onLoad = "rejected"]
            /\ UNCHANGED tree
       ELSE /\ page' = [page EXCEPT !.onLoad = "done", !.token = token]
            /\ tree' = onLoadResume(tree, page.forms, token, api.apiRequiresAuth)
    /\ UNCHANGED <<triggerTypes, actionTypes, events, handlers, triggers, actions,
                   warnings, scans, invocations, uncaught, load, formVars, api,
                   occurrences, slider>>

NextAddListing ==
    \/ ExecAddListing
    \/ \E token \in {"jwt", "null", "#rejected"} : MemberTokenSettles(token)
    \/ \E tid \in 1..Len(triggers) : Refire(tid)
    \/ \E v \in 1..Len(invocations) :
          \E k \in 1..Len(invocations[v].calls), how \in {"resolved", "rejected"} :
             Settle(v, k, how)

SpecAddListing == InitAddListing /\ [][NextAddListing]_vars


(***************************************************************************)
(* Properties                                                              *)
(***************************************************************************)
Invocation(v) == invocations[v]

KindOf(v) == handlers[invocations[v].handler].kind

\* the actions an invocation has called trigger on, in call order
Called(v) == [k \in 1..Len(invocations[v].calls) |-> invocations[v].calls[k].action]

IsPrefix(a, b) == Len(a) <= Len(b) /\ SubSeq(b, 1, Len(a)) = a

\* C1: under the sequential handler trigger is called on the next action only
\* after the call before it has settled (resolved, rejected, returned or thrown),
\* so at most one call of an invocation is pending at any time, and the calls
\* follow the handler's list a_0, a_1, ...
C1_SequentialAwaitsEachAction ==
    \A v \in 1..Len(invocations) :
       KindOf(v) = "sequential" =>
          /\ \A k \in 1..(Len(Invocation(v).calls) - 1) :
                Invocation(v).calls[k].result \in Settled
          /\ Cardinality({k \in 1..Len(Invocation(v).calls) :
                Invocation(v).calls[k].result = "pending"}) <= 1
          /\ IsPrefix(Called(v), handlers[Invocation(v).handler].actions)

\* a sequential invocation whose first two operations were pending and have
\* settled, with the third one in flight
C1_Witness ==
    \E v \in 1..Len(invocations) :
       /\ KindOf(v) = "sequential"
       /\ Len(Invocation(v).calls) = 3
       /\ Invocation(v).calls[1].result = "resolved"
       /\ Invocation(v).calls[2].result = "rejected"
       /\ Invocation(v).calls[3].result = "pending"

\* C2: under the sequential handler a throwing or rejecting action does not end
\* the sequence: the invocation never raises, a failed call is never the place it
\* stays stopped at, and a completed invocation has triggered every action of the
\* list it started with, once each and in order
C2_SequentialContainsFailures ==
    \A v \in 1..Len(invocations) :
       KindOf(v) = "sequential" =>
          /\ Invocation(v).status \in {"awaiting", "completed"}
          /\ \A u \in uncaught : u.invocation # v
          /\ IsPrefix(Called(v), handlers[Invocation(v).handler].actions)
          /\ Invocation(v).status = "completed" =>
                IsPrefix(Invocation(v).started, Called(v))
          /\ (Invocation(v).status = "awaiting" /\ Invocation(v).calls # <<>>) =>
                Invocation(v).calls[Len(Invocation(v).calls)].result # "threw"
          /\ (/\ Invocation(v).status = "awaiting"
              /\ Invocation(v).calls # <<>>
              /\ Invocation(v).calls[Len(Invocation(v).calls)].result = "rejected")
                => ENABLED Resume(v)

\* a completed sequential invocation of three actions whose first rejected and
\* whose second threw
C2_Witness ==
    \E v \in 1..Len(invocations) :
       /\ KindOf(v) = "sequential"
       /\ Invocation(v).status = "completed"
       /\ Len(Invocation(v).calls) = 3
       /\ Invocation(v).calls[1].result = "rejected"
       /\ Invocation(v).calls[2].result = "threw"
       /\ Invocation(v).calls[3].result \in {"returned", "resolved"}

\* C3: the default handler never suspends, and when its invoke returns it has
\* called trigger once on each action of the list, in list order, whether or not
\* the operations those calls returned have settled; with an empty list it calls
\* nothing
C3_DefaultIssuesAllCalls ==
    \A v \in 1..Len(invocations) :
       KindOf(v) = "default" =>
          /\ Invocation(v).status \in {"returned", "threw"}
          /\ Invocation(v).status = "returned" =>
                /\ Called(v) = Invocation(v).started
                /\ \A k \in 1..Len(Invocation(v).calls) :
                      Invocation(v).calls[k].result # "threw"
          /\ Invocation(v).started = <<>> => Invocation(v).calls = <<>>

\* a returned default invocation of three actions with operations still pending
C3_Witness ==
    \E v \in 1..Len(invocations) :
       /\ KindOf(v) = "default"
       /\ Invocation(v).status = "returned"
       /\ Len(Invocation(v).calls) = 3
       /\ Invocation(v).calls[1].result = "pending"
       /\ Invocation(v).calls[2].result = "returned"
       /\ Invocation(v).calls[3].result = "pending"

\* C4: under the default handler no action failure, thrown or rejected, leaves
\* invoke as an error, and every action of the list is visited
C4_DefaultSwallowsFailures ==
    \A v \in 1..Len(invocations) :
       KindOf(v) = "default" =>
          /\ Invocation(v).status = "returned"
          /\ Called(v) = Invocation(v).started

Range(f) == {f[x] : x \in DOMAIN f}

\* the handlers a name had before its current one
Replaced(n) == {h \in 1..Len(handlers) : handlers[h].eventName = n /\ h # events[n]}

\* C5: registerEvent(name, h) makes h the one handler of name and merges nothing:
\* a name's handler changes only in a step that installs a new handler with an
\* empty list and leaves the replaced handler's list where it was, no action is
\* on the lists of two handlers, and an invocation made through the name calls
\* only actions of the list of the handler the name maps to
C5_RegisterEventReplacesWithoutMerge ==
    /\ [](\A g, h \in 1..Len(handlers) :
             g # h => Range(handlers[g].actions) \cap Range(handlers[h].actions) = {})
    /\ [](\A v \in 1..Len(invocations) :
             Range(Called(v)) \subseteq Range(handlers[Invocation(v).handler].actions))
    /\ [][\A n \in DOMAIN events :
             /\ n \in DOMAIN events'
             /\ events'[n] # events[n] =>
                   /\ events'[n] = Len(handlers) + 1
                   /\ handlers'[events'[n]].actions = <<>>
                   /\ handlers'[events[n]] = handlers[events[n]]
                   /\ actions' = actions]_vars
    /\ [][Len(invocations') > Len(invocations) =>
             LET inv == invocations'[Len(invocations')]
             IN  /\ inv.handler = events[triggers[inv.trigger].eventName]
                 /\ inv.started = handlers[inv.handler].actions]_vars

\* the name set-status was invoked after its handler, which had three actions,
\* was replaced: nothing was called
C5_Witness ==
    \E v \in 1..Len(invocations) :
       /\ "set-status" \in DOMAIN events
       /\ Invocation(v).handler = events["set-status"]
       /\ Invocation(v).calls = <<>>
       /\ Invocation(v).status \in {"returned", "completed"}
       /\ \E h \in Replaced("set-status") : Len(handlers[h].actions) >= 2

\* C6: ensureEvent(name) on a registered name, whatever handler it has, changes
\* nothing; on an absent name it registers a default handler with an empty list
\* and changes nothing else; a second call changes nothing; and the steps that
\* call it (scan, programmatic registration) keep every registered name's
\* handler instance and only append to its list
C6_EnsureEventIdempotent ==
    /\ [](\A n \in EventNames :
            LET r == ensureEvent(Reg, n)
            IN  /\ hasEvent(events, n) => r = Reg
                /\ ~hasEvent(events, n) =>
                      /\ DOMAIN r.events = DOMAIN events \cup {n}
                      /\ \A m \in DOMAIN events : r.events[m] = events[m]
                      /\ r.handlers = Append(handlers, NewHandler("default", n))
                      /\ r.events[n] = Len(r.handlers)
                      /\ r.handlers[r.events[n]].actions = <<>>
                      /\ r.triggers = triggers /\ r.actions = actions
                /\ ensureEvent(r, n) = r)
    /\ [][(Len(actions') > Len(actions) \/ Len(triggers') > Len(triggers)) =>
             \A n \in DOMAIN events :
                /\ n \in DOMAIN events'
                /\ events'[n] = events[n]
                /\ handlers'[events[n]].kind = handlers[events[n]].kind
                /\ IsPrefix(handlers[events[n]].actions, handlers'[events[n]].actions)]_vars

\* the scan and a programmatic registration both ensured the name set-status,
\* which had an explicitly installed sequential handler: it is still the name's
\* only handler and holds all three actions
C6_Witness ==
    /\ scans = 1
    /\ Len(handlers) = Cardinality(DOMAIN events)
    /\ "set-status" \in DOMAIN events
    /\ handlers[events["set-status"]].kind = "sequential"
    /\ Len(handlers[events["set-status"]].actions) = 3
    /\ Programmatic # {}

\* where in the document a scanned action's attribute is
Before(a, b) ==
    \/ a.element < b.element
    \/ a.element = b.element /\ a.index < b.index

\* C9: an event's actions are triggered in the order they were appended: each
\* list is in order of creation, scanned actions are in document order then
\* attribute order, programmatic actions registered before the scan precede the
\* scanned ones, a list only ever grows at its end, and every invocation calls
\* the actions in the order of the list
C9_ActionOrderIsAppendOrder ==
    /\ [](\A h \in 1..Len(handlers) :
            \A i, j \in 1..Len(handlers[h].actions) :
               i < j =>
                  LET a == handlers[h].actions[i]
                      b == handlers[h].actions[j]
                  IN  /\ a < b
                      /\ (actions[a].element # NoElement /\ actions[b].element # NoElement)
                            => Before(actions[a], actions[b]))
    /\ [](\A a, b \in 1..Len(actions) :
            (a < b /\ actions[a].element # NoElement /\ actions[b].element # NoElement)
               => Before(actions[a], actions[b]))
    /\ [](\A v \in 1..Len(invocations) :
            IsPrefix(Called(v), handlers[Invocation(v).handler].actions))
    /\ [][\A h \in 1..Len(handlers) :
            IsPrefix(handlers[h].actions, handlers'[h].actions)]_vars

\* an event holds a programmatic action registered before the scan and two
\* scanned actions of one element; an invocation has called all three
C9_Witness ==
    \E v \in 1..Len(invocations) :
       /\ Len(Invocation(v).calls) = 3
       /\ actions[Called(v)[1]].element = NoElement
       /\ actions[Called(v)[2]].element = actions[Called(v)[3]].element
       /\ actions[Called(v)[2]].index = 1
       /\ actions[Called(v)[3]].index = 2

\* the attributes of the document, as a set
Attributes == Range(AllAttributes(tree, 1, 1))

TypeOf(attr) == At(Split(attr.name), 1)

\* the attributes the scan takes for trigger and action bindings
ScannedTriggers == {a \in Attributes : IsTriggerAttribute(a)}

ScannedActions == {a \in Attributes : IsActionAttribute(a)}

\* a binding declaration as the syntax has it: <namespace>:<type>, one type segment
IsBinding(ns, attr) ==
    /\ Len(attr.name) = 3
    /\ attr.name[1] = ns
    /\ attr.name[2] = COLON
    /\ attr.name[3] # COLON

\* C7: after one scan from an empty Event Registry the registered names are
\* exactly the values of the trigger:<type> and action:<type> attributes whose
\* type is registered, and the list of each name has exactly one entry per
\* action:<type> attribute with a registered type and that value
C7_ScanRegistersExactlyTheBoundEvents ==
    [][scans' = scans + 1 =>
         /\ DOMAIN events' =
               {a.value : a \in {b \in Attributes :
                   \/ IsBinding(NsTrigger, b) /\ TypeOf(b) \in DOMAIN triggerTypes
                   \/ IsBinding(NsAction, b) /\ TypeOf(b) \in DOMAIN actionTypes}}
         /\ \A e \in DOMAIN events' :
               Len(handlers'[events'[e]].actions) =
                  Cardinality({b \in Attributes :
                     /\ IsBinding(NsAction, b)
                     /\ TypeOf(b) \in DOMAIN actionTypes
                     /\ b.value = e})]_vars

\* C8: an attribute the scan classifies whose type is not registered gets no
\* instance and creates no event (the registered names are the values of the
\* resolved attributes only), and the scan goes on: every classified attribute
\* with a registered type gets exactly one instance, an action one on the list
\* of its event, and every unresolved one gets a diagnostic
C8_UnknownTypeIsSkipped ==
    [][scans' = scans + 1 =>
         LET resolvedT   == {a \in ScannedTriggers : TypeOf(a) \in DOMAIN triggerTypes}
             resolvedA   == {a \in ScannedActions : TypeOf(a) \in DOMAIN actionTypes}
             unresolvedT == ScannedTriggers \ resolvedT
             unresolvedA == ScannedActions \ resolvedA
             at(list, a) == {k \in 1..Len(list) :
                               list[k].element = a.element /\ list[k].index = a.index}
         IN  /\ \A a \in unresolvedT : at(triggers', a) = {}
             /\ \A a \in unresolvedA : at(actions', a) = {}
             /\ DOMAIN events' = {a.value : a \in resolvedT \cup resolvedA}
             /\ \A a \in resolvedT :
                   /\ Cardinality(at(triggers', a)) = 1
                   /\ \A k \in at(triggers', a) : triggers'[k].eventName = a.value
             /\ \A a \in resolvedA :
                   /\ Cardinality(at(actions', a)) = 1
                   /\ \A k \in at(actions', a) :
                         Cardinality({i \in 1..Len(handlers'[events'[a.value]].actions) :
                            handlers'[events'[a.value]].actions[i] = k}) = 1
             /\ Len(triggers') = Cardinality(resolvedT)
             /\ Len(actions') = Cardinality(resolvedA)
             /\ Len(warnings') = Cardinality(unresolvedT) + Cardinality(unresolvedA)]_vars

\* a scanned document with action:nope="go" and, after it, an action of a
\* registered type for another event: the action is wired, go does not exist
C8_Witness ==
    /\ scans = 1
    /\ "go" \notin DOMAIN events
    /\ \E w \in 1..Len(warnings) : warnings[w] = [ns |-> NsAction, type |-> "nope"]
    /\ \E a \in Attributes :
          /\ a.name = <<"action", COLON, "nope">>
          /\ a.value = "go"
          /\ \E k \in 1..Len(actions) :
                /\ Before(a, actions[k])
                /\ actions[k].eventName \in DOMAIN events
                /\ k \in Range(handlers[events[actions[k].eventName]].actions)

\* the keys and values of the data attributes of a trigger's element
DataPrefix(attribute) == attribute \o <<COLON, DataSegment, COLON>>

DataAttrs(el, attribute) ==
    {a \in Range(el.attrs) : StartsWith(a.name, DataPrefix(attribute))}

DataKeys(el, attribute) ==
    {StripPrefix(a.name, DataPrefix(attribute)) : a \in DataAttrs(el, attribute)}

\* the entries of data are exactly the data attributes of the trigger, but for
\* the keys in except
ExactlyTheDataAttributes(data, el, attribute, except) ==
    /\ DOMAIN data = DataKeys(el, attribute) \cup except
    /\ \A a \in DataAttrs(el, attribute) :
          StripPrefix(a.name, DataPrefix(attribute)) \notin except =>
             data[StripPrefix(a.name, DataPrefix(attribute))] = a.value

\* C10 as stated: whatever the trigger, the Trigger Data composed when it fires
\* has one entry per data attribute of the trigger's attribute name, and no other
C10_DataIsExactlyTheDataAttributes ==
    [][Len(invocations') > Len(invocations) =>
         LET inv == invocations'[Len(invocations')]
         IN  ExactlyTheDataAttributes(inv.data, tree[inv.element],
                                      triggers[inv.trigger].attribute, {})]_vars

\* C10: the Trigger Data composed when a trigger fires has one entry per data
\* attribute of the trigger's attribute name; a trigger that composes its data
\* the base way has no other entry, a submit trigger has two more, fields and
\* headers, which stand in for data attributes of those two keys
C10_DataIsTheDataAttributesPlusSubmitEntries ==
    [][Len(invocations') > Len(invocations) =>
         LET inv  == invocations'[Len(invocations')]
             trig == triggers[inv.trigger]
             el   == tree[inv.element]
         IN  IF trig.ctor = "TriggerSubmit"
             THEN /\ ExactlyTheDataAttributes(inv.data, el, trig.attribute,
                                              {<<"fields">>, <<"headers">>})
                  /\ DOMAIN inv.data[<<"fields">>] = {"fields"}
                  /\ DOMAIN inv.data[<<"headers">>] \in {{"headers"}, {"undefined"}}
             ELSE ExactlyTheDataAttributes(inv.data, el, trig.attribute, {})]_vars

\* a click trigger with the data attributes id and color has fired
C10_Witness ==
    \E v \in 1..Len(invocations) :
       /\ triggers[Invocation(v).trigger].ctor = "TriggerClick"
       /\ DOMAIN Invocation(v).data = {<<"id">>, <<"color">>}
       /\ Invocation(v).data[<<"id">>] = "42"
       /\ Invocation(v).data[<<"color">>] = "red"

HeaderPrefix == <<NsTrigger, COLON, "submit", COLON, "header", COLON>>

HeaderAttrs(el) == {a \in Range(el.attrs) : StartsWith(a.name, HeaderPrefix)}

\* the entries a submit trigger adds to the data attributes
SubmitEntries == {<<"fields">>, <<"headers">>}

Extras(trig) == IF trig.ctor = "TriggerSubmit" THEN SubmitEntries ELSE {}

\* the value the element's attributes give to a data key now
CurrentValue(el, attribute, key) ==
    (CHOOSE a \in DataAttrs(el, attribute) :
        StripPrefix(a.name, DataPrefix(attribute)) = key).value

\* C11: Trigger Data is composed anew at every invocation: when a trigger fires
\* again, every data attribute its element has now is delivered with its
\* current value, a key of the earlier invocation's data whose attribute was
\* removed is gone, one whose attribute was changed has the new value, and a
\* submit trigger's headers are the header attributes the form has now
C11_DataIsRecomputedEachInvocation ==
    [][Len(invocations') > Len(invocations) =>
         LET inv  == invocations'[Len(invocations')]
             trig == triggers[inv.trigger]
             el   == tree[inv.element]
             keys == DataKeys(el, trig.attribute)
         IN  /\ \A key \in keys \ Extras(trig) :
                   /\ key \in DOMAIN inv.data
                   /\ inv.data[key] = CurrentValue(el, trig.attribute, key)
             /\ DOMAIN inv.data \subseteq keys \cup Extras(trig)
             /\ \A u \in 1..Len(invocations) :
                   invocations[u].trigger = inv.trigger =>
                      \A key \in DOMAIN invocations[u].data \ Extras(trig) :
                         IF key \in keys
                         THEN inv.data[key] = CurrentValue(el, trig.attribute, key)
                         ELSE key \notin DOMAIN inv.data
             /\ (trig.ctor = "TriggerSubmit" /\ el.tag = "form") =>
                   IF HeaderAttrs(el) = {}
                   THEN DOMAIN inv.data[<<"headers">>] = {"undefined"}
                   ELSE /\ DOMAIN inv.data[<<"headers">>] = {"headers"}
                        /\ DOMAIN inv.data[<<"headers">>].headers =
                              {StripPrefix(a.name, HeaderPrefix) : a \in HeaderAttrs(el)}
                        /\ \A a \in HeaderAttrs(el) :
                              inv.data[<<"headers">>].headers[StripPrefix(a.name, HeaderPrefix)]
                                 = a.value]_vars

\* a click trigger fired with id 42 and color red; id was changed to 43 and
\* color removed; it fired again and delivered id 43 alone
C11_Witness ==
    /\ Len(invocations) = 2
    /\ invocations[1].trigger = invocations[2].trigger
    /\ triggers[invocations[1].trigger].ctor = "TriggerClick"
    /\ DOMAIN invocations[1].data = {<<"id">>, <<"color">>}
    /\ invocations[1].data[<<"id">>] = "42"
    /\ DOMAIN invocations[2].data = {<<"id">>}
    /\ invocations[2].data[<<"id">>] = "43"

\* the actions the markup declares for a name, in markup order
RECURSIVE MarkupActionsFrom(_, _)
MarkupActionsFrom(n, a) ==
    IF a > Len(actions) THEN <<>>
    ELSE (IF actions[a].eventName = n /\ actions[a].element # NoElement
          THEN <<a>> ELSE <<>>) \o MarkupActionsFrom(n, a + 1)

MarkupActions(n) == MarkupActionsFrom(n, 1)

\* C12: when the page's onLoad() registers a name with a sequential handler as
\* the guide instructs, an invocation of that name runs under the sequential
\* handler, one action at a time, and once completed it has triggered the
\* actions the markup declares for the name, in markup order
C12_GuideRunsMarkupActionsInSequence ==
    \A v \in 1..Len(invocations) :
       triggers[Invocation(v).trigger].eventName \in load.sequential =>
          /\ KindOf(v) = "sequential"
          /\ \A k \in 1..(Len(Invocation(v).calls) - 1) :
                Invocation(v).calls[k].result \in Settled
          /\ Invocation(v).status = "completed" =>
                Called(v) = MarkupActions(triggers[Invocation(v).trigger].eventName)

\* C17: exec runs at most once, and exactly once as soon as the script has run
\* and the document is parsed; each run calls initializeComponents, then
\* initializeFIX, then execRoute, so the tree is scanned once per page load
C17_ExecRunsOnceInOrder ==
    /\ load.execs \in {0, 1}
    /\ scans = load.execs
    /\ load.execs = 1 <=> (load.script /\ load.readyState # "loading")
    /\ load.log = IF load.execs = 0 THEN <<>>
                  ELSE <<"initializeComponents", "initializeFIX", "execRoute">>
    /\ load.listener => load.script

\* the script ran while the document was loading, DOMContentLoaded came, exec
\* ran once and wired the page's two actions
C17_Witness ==
    /\ load.listener
    /\ load.readyState = "interactive"
    /\ load.execs = 1
    /\ scans = 1
    /\ Len(triggers) = 1
    /\ Len(actions) >= 2

\* C13: a programmatic registration creates one action, with no element and
\* initialized once, and puts it at the end of the list of its event's handler:
\* the handler the name already had, with the actions it had in the order they
\* were in, or a new default handler when the name was absent; nothing else
\* changes
C13_ProgrammaticActionIsAppended ==
    [][(Len(actions') > Len(actions) /\ scans' = scans) =>
         LET aid == Len(actions) + 1
             n   == actions'[aid].eventName
         IN  /\ Len(actions') = aid
             /\ SubSeq(actions', 1, Len(actions)) = actions
             /\ actions'[aid].element = NoElement
             /\ actions'[aid].inits = 1
             /\ triggers' = triggers
             /\ n \in DOMAIN events'
             /\ \A m \in DOMAIN events : m \in DOMAIN events' /\ events'[m] = events[m]
             /\ DOMAIN events' = DOMAIN events \cup {n}
             /\ IF n \in DOMAIN events
                THEN /\ Len(handlers') = Len(handlers)
                     /\ handlers'[events[n]] =
                           [handlers[events[n]] EXCEPT !.actions = Append(@, aid)]
                ELSE /\ handlers' = Append(handlers,
                                       [kind |-> "default", eventName |-> n,
                                        actions |-> <<aid>>])
                     /\ events'[n] = Len(handlers')
             /\ \A h \in 1..Len(handlers) :
                   h # events'[n] => handlers'[h] = handlers[h]]_vars

\* a programmatic action registered after the scan stands behind the three
\* scanned actions of go, on the sequential handler go was given
C13_Witness ==
    /\ scans = 1
    /\ "go" \in DOMAIN events
    /\ handlers[events["go"]].kind = "sequential"
    /\ Len(handlers[events["go"]].actions) = 4
    /\ \A i \in 1..3 : actions[handlers[events["go"]].actions[i]].element # NoElement
    /\ actions[handlers[events["go"]].actions[4]].element = NoElement

\* C18: registering a type sets the entry of its name in its own map and leaves
\* the other map alone, whether the name was registered or not; a scan resolves
\* each binding in the map of its side as the map is then: a trigger is built
\* with the constructor last registered for its type, and a type name registered
\* on the other side only resolves nothing
C18_TypeRegistrationOverwritesPerMap ==
    /\ [][triggerTypes' # triggerTypes =>
            /\ actionTypes' = actionTypes
            /\ DOMAIN triggerTypes \subseteq DOMAIN triggerTypes'
            /\ Cardinality({n \in DOMAIN triggerTypes' :
                  n \notin DOMAIN triggerTypes \/ triggerTypes'[n] # triggerTypes[n]}) = 1]_vars
    /\ [][actionTypes' # actionTypes =>
            /\ triggerTypes' = triggerTypes
            /\ DOMAIN actionTypes \subseteq DOMAIN actionTypes'
            /\ Cardinality({n \in DOMAIN actionTypes' :
                  n \notin DOMAIN actionTypes \/ actionTypes'[n] # actionTypes[n]}) = 1]_vars
    /\ [][scans' = scans + 1 =>
            /\ \A k \in (Len(triggers) + 1)..Len(triggers') :
                  /\ At(Split(triggers'[k].attribute), 1) \in DOMAIN triggerTypes
                  /\ triggers'[k].ctor = triggerTypes[At(Split(triggers'[k].attribute), 1)]
            /\ \A k \in (Len(actions) + 1)..Len(actions') :
                  /\ At(Split(actions'[k].attribute), 1) \in DOMAIN actionTypes
                  /\ actions'[k].ctor = actionTypes[At(Split(actions'[k].attribute), 1)]
            /\ \A a \in ScannedTriggers :
                  TypeOf(a) \notin DOMAIN triggerTypes =>
                     \A k \in 1..Len(triggers') :
                        ~(triggers'[k].element = a.element /\ triggers'[k].index = a.index)
            /\ \A a \in ScannedActions :
                  TypeOf(a) \notin DOMAIN actionTypes =>
                     \A k \in 1..Len(actions') :
                        ~(actions'[k].element = a.element /\ actions'[k].index = a.index)]_vars

\* submit was registered again as a trigger type, with another constructor:
\* the scan built the submit trigger with the later constructor, and
\* action:submit, whose name only the trigger side knows, resolved nothing
C18_Witness ==
    /\ scans = 1
    /\ triggerTypes["submit"] = "TriggerClick"
    /\ "submit" \notin DOMAIN actionTypes
    /\ \E k \in 1..Len(triggers) :
          triggers[k].attribute = Name2("trigger", "submit") /\ triggers[k].ctor = "TriggerClick"
    /\ \E w \in 1..Len(warnings) : warnings[w] = [ns |-> NsAction, type |-> "submit"]
    /\ \A k \in 1..Len(actions) : actions[k].attribute # Name2("action", "submit")

\* the instances a scan made from the attribute at a's place
InstancesAt(list, a) ==
    {k \in 1..Len(list) : list[k].element = a.element /\ list[k].index = a.index}

\* the binding declarations of the document whose type is registered
ResolvedBindings ==
    {b \in Attributes :
        \/ IsBinding(NsTrigger, b) /\ TypeOf(b) \in DOMAIN triggerTypes
        \/ IsBinding(NsAction, b) /\ TypeOf(b) \in DOMAIN actionTypes}

\* C14: an attribute that is not exactly trigger:<type> or action:<type> is
\* never taken for a binding by the scan: it gets no trigger or action instance,
\* its value names no event unless a binding declaration names the same event,
\* and the diagnostics are those of the binding declarations alone
C14_OnlyExactNamesAreBindings ==
    [][scans' = scans + 1 =>
         /\ \A a \in Attributes :
               ~(IsBinding(NsTrigger, a) \/ IsBinding(NsAction, a)) =>
                  /\ InstancesAt(triggers', a) = {}
                  /\ InstancesAt(actions', a) = {}
                  /\ a.value \in DOMAIN events' =>
                        \E b \in ResolvedBindings : b.value = a.value
         /\ Len(warnings') - Len(warnings) =
               Cardinality({b \in Attributes :
                  \/ IsBinding(NsTrigger, b) /\ TypeOf(b) \notin DOMAIN triggerTypes
                  \/ IsBinding(NsAction, b) /\ TypeOf(b) \notin DOMAIN actionTypes})]_vars

\* a data attribute of a trigger binding: trigger:<type>:data:<key>
IsDataAttribute(a) ==
    /\ Len(a.name) >= 6
    /\ a.name[1] = NsTrigger
    /\ a.name[2] = COLON
    /\ a.name[3] # COLON
    /\ a.name[4] = COLON
    /\ a.name[5] = DataSegment
    /\ a.name[6] = COLON

\* C15: the scan never takes a trigger:<type>:data:<key> attribute for a trigger
\* binding: it gets no trigger instance and its value names no event unless a
\* classified attribute that is no data attribute names it, and an element with
\* one trigger attribute of a registered type besides data attributes gets
\* exactly one trigger
C15_DataAttributesAreNotTriggers ==
    [][scans' = scans + 1 =>
         /\ \A a \in Attributes :
               IsDataAttribute(a) =>
                  /\ InstancesAt(triggers', a) = {}
                  /\ a.value \in DOMAIN events' =>
                        \E b \in (ScannedTriggers \cup ScannedActions) :
                           ~IsDataAttribute(b) /\ b.value = a.value
         /\ \A i \in 1..Len(tree) :
               LET own      == {a \in Attributes : a.element = i}
                   bindings == {a \in own : IsBinding(NsTrigger, a)}
               IN  (/\ Cardinality(bindings) = 1
                    /\ \A a \in bindings : TypeOf(a) \in DOMAIN triggerTypes
                    /\ \A a \in own \ bindings : IsDataAttribute(a))
                      => Cardinality({k \in 1..Len(triggers') :
                                        triggers'[k].element = i}) = 1]_vars

\* an element with trigger:click and two data attributes of it was scanned: one
\* trigger, one event
C15_Witness ==
    /\ scans = 1
    /\ Len(tree[1].attrs) = 3
    /\ \E a \in Attributes : a.name = Name2("trigger", "click")
    /\ Cardinality({a \in Attributes : IsDataAttribute(a)}) = 2
    /\ Len(triggers) = 1
    /\ DOMAIN events = {"e1"}

\* the invocation of SpecLive, run by a sequential handler
SequentialStarted == invocations # <<>> /\ KindOf(1) = "sequential"

\* the sequential invocation is suspended on an operation that has not settled
Stalled ==
    /\ SequentialStarted
    /\ invocations[1].status = "awaiting"
    /\ invocations[1].calls[Len(invocations[1].calls)].result = "pending"

SequentialCompleted == SequentialStarted /\ invocations[1].status = "completed"

\* C16: a sequential invocation whose pending operations all settle eventually
\* completes, and it has then called trigger on each of its n actions, in order;
\* while the operation of action a_i is pending the invocation is not complete,
\* no further action is triggered, and the only step that changes the invocation
\* is the settling of that operation (no timeout, no cancellation), so that an
\* operation that never settles stalls the invocation for ever
C16_SequentialCompletesUnlessStalled ==
    /\ [](SequentialCompleted => Called(1) = invocations[1].started)
    /\ [][Stalled =>
            \/ invocations' = invocations
            \/ \E how \in {"resolved", "rejected"} :
                  invocations' = [invocations EXCEPT
                      ![1].calls[Len(invocations[1].calls)].result = how]]_vars
    /\ (<>[]Stalled) \/ (SequentialStarted ~> SequentialCompleted)

\* a sequential invocation has completed over two actions, one of which had a
\* pending operation that settled
C16_Witness ==
    /\ SequentialCompleted
    /\ Len(invocations[1].calls) >= 2
    /\ \E k \in 1..Len(invocations[1].calls) :
          invocations[1].calls[k].result \in {"resolved", "rejected"}

\* what the visitor sees of the form block: the form unless hidden, a message
\* only when displayed (the platform's stylesheet hides both messages)
Shown(f) == [form |-> f.style.form # "none",
             success |-> f.style.success = "block",
             error |-> f.style.error = "block"]

\* the display of a state, over the message elements the wrapper holds
Display(f, state) == [form |-> state # "success",
                      success |-> f.done /\ state = "success",
                      error |-> f.fail /\ state = "error"]

\* C19: a constructed WebflowForm always shows one of three displays: Default
\* (the form, no message), Success (the success message only, form hidden) or
\* Error (the form and the error message, success message hidden), each over
\* the message elements its wrapper holds; setState(s) yields the display of s,
\* construction and reset() yield Default, and the success and the error
\* message are never both displayed
C19_ThreeDisplayStates ==
    /\ [](form.constructed =>
            /\ \E state \in FormState : Shown(form) = Display(form, state)
            /\ ~(Shown(form).success /\ Shown(form).error))
    /\ [][/\ Construct /\ form'.constructed => Shown(form') = Display(form', "default")
          /\ Reset => Shown(form') = Display(form', "default") /\ ~form'.filled
          /\ \A state \in FormState :
                SetState(state) => Shown(form') = Display(form', state)]_vars

\* a form block with both messages shows Error after a submission whose handler
\* had shown Success first
C19_Witness ==
    /\ form.constructed /\ form.done /\ form.fail
    /\ Shown(form) = [form |-> TRUE, success |-> FALSE, error |-> TRUE]
    /\ \E i \in 1..Len(submissions) :
          \E k \in 1..Len(submissions[i].log) :
             /\ submissions[i].log[k] = "setState:success"
             /\ \E m \in (k + 1)..Len(submissions[i].log) :
                   submissions[i].log[m] = "setState:error"

\* what a step of the listener of submission i has added to its log
Added(i) == SubSeq(submissions'[i].log, Len(submissions[i].log) + 1,
                   Len(submissions'[i].log))

\* C20: the attribute sse-form-mode-auto="false" makes a manual form, any other
\* value an automatic one. With autoMode on, the submit listener calls
\* setState(Success) on an ok response and only then onSuccess, and the form
\* shows Success unless that callback throws; on a response that is not ok
\* (once its text is read) and on a failed request the form shows Error. With
\* autoMode off no step of the listener changes the form, whatever the outcome
C20_AutoModeDecidesTheDisplay ==
    [][/\ ~form.constructed /\ form'.constructed =>
             form'.autoMode = (form.modeAttr # "false")
       /\ Len(submissions') > Len(submissions) => form' = form
       /\ \A i \in 1..Len(submissions) :
             (Len(submissions') = Len(submissions) /\ submissions'[i] # submissions[i]) =>
                LET s == submissions[i]
                    t == submissions'[i]
                IN  /\ ~form.autoMode =>
                          /\ form' = form
                          /\ \A k \in 1..Len(Added(i)) :
                                Added(i)[k] \notin {"setState:success", "setState:error"}
                    /\ (form.autoMode /\ s.pc = "requesting" /\ t.response = "ok") =>
                          /\ Len(Added(i)) >= 2
                          /\ Added(i)[1] = "setState:success"
                          /\ Added(i)[2] = "onSuccess"
                          /\ Shown(form') = IF Len(Added(i)) = 2
                                            THEN Display(form, "success")
                                            ELSE Display(form, "error")
                    /\ (/\ form.autoMode
                        /\ \/ s.pc = "requesting" /\ t.response = "failed"
                           \/ s.pc = "text") =>
                          /\ Shown(form') = Display(form, "error")
                          /\ \E k \in 1..Len(Added(i)) : Added(i)[k] = "setState:error"]_vars

\* an automatic form with both messages shows Success while the onSuccess
\* callback of an ok submission is still running
C20_Witness ==
    /\ form.constructed /\ form.autoMode /\ form.done /\ form.fail
    /\ Shown(form) = [form |-> FALSE, success |-> TRUE, error |-> FALSE]
    /\ \E i \in 1..Len(submissions) :
          /\ submissions[i].pc = "onSuccess"
          /\ submissions[i].response = "ok"

\* the call has handed a request to fetch
Sent(c) == c.fetch # <<>>

\* what apiRequest copies from each options.headers of the calls
Copied == [given \in HeaderOptions |-> copyHeaders(given)]

\* C21: a call of apiRequest with a (non-empty) bearerToken sends its request
\* with Authorization = Bearer <that token> and never asks Memberstack, whatever
\* useAuth is; otherwise, with useAuth and apiRequiresAuth, it asks Memberstack,
\* sends nothing while waiting, sends Authorization = Bearer <token> when it got
\* one, and throws without sending when it got none; in every other case the
\* request is sent at once, Memberstack is not asked, and the headers are the
\* caller's own (plus Content-Type for a JSON body) with no Authorization set.
\* Every request that is sent carries the headers copied from the caller's
\* (under their lower-case names); a call whose options.headers are no headers
\* throws before the authentication branch: it sends nothing and does not ask
\* Memberstack
C21_AuthorizationFollowsTheOptions ==
    \A i \in 1..Len(api.calls) :
       LET c == api.calls[i]
           o == c.options
           copy == Copied[o.headers]
       IN  /\ copy.threw => c.pc = "rejected" /\ ~Sent(c) /\ c.token = Undefined
           /\ (~copy.threw /\ Truthy(o.bearerToken)) =>
                /\ Sent(c)
                /\ c.token = Undefined
                /\ c.fetch[1].headers["Authorization"] = Bearer(o.bearerToken)
           /\ (~copy.threw /\ ~Truthy(o.bearerToken) /\ o.useAuth = "true"
                  /\ api.apiRequiresAuth) =>
                /\ c.token # Undefined
                /\ c.token \in {"pending", "null", "", "#rejected"} => ~Sent(c)
                /\ c.token \in {"null", "", "#rejected"} => c.pc = "rejected"
                /\ Sent(c) => c.fetch[1].headers["Authorization"] = Bearer(c.token)
           /\ (~copy.threw /\ ~Truthy(o.bearerToken)
                  /\ ~(o.useAuth = "true" /\ api.apiRequiresAuth)) =>
                /\ Sent(c)
                /\ c.token = Undefined
                /\ "Authorization" \notin DOMAIN c.fetch[1].headers
                /\ \A k \in DOMAIN c.fetch[1].headers \ {"Content-Type"} :
                      k \in DOMAIN copy.headers
           /\ Sent(c) =>
                \A k \in DOMAIN copy.headers :
                   /\ k \in DOMAIN c.fetch[1].headers
                   /\ c.fetch[1].headers[k] = copy.headers[k]

\* a call with useAuth on an API that requires auth has thrown, no request sent,
\* because Memberstack had no token
C21_Witness ==
    \E i \in 1..Len(api.calls) :
       /\ api.apiRequiresAuth
       /\ api.calls[i].options.useAuth = "true"
       /\ api.calls[i].token = "null"
       /\ api.calls[i].pc = "rejected"
       /\ ~Sent(api.calls[i])

\* the invocation a step has started
Started == invocations'[Len(invocations')]

\* C22: every invocation of a trigger goes to the handler registered under the
\* trigger's event name at that moment (after registerEvent, the new handler),
\* with the trigger's own element and the data composed from its attributes at
\* that moment; and every action called during an invocation is called from the
\* list of that invocation's handler, never by the trigger itself
C22_HandlerIsResolvedAtEachInvocation ==
    /\ [][Len(invocations') > Len(invocations) =>
            LET trig == triggers[Started.trigger]
            IN  /\ hasEvent(events, trig.eventName)
                /\ Started.handler = events[trig.eventName]
                /\ Started.element = trig.element
                /\ Started.data = composeTriggerData(tree[trig.element], trig)]_vars
    /\ [](\A v \in 1..Len(invocations) :
            IsPrefix(Called(v), handlers[invocations[v].handler].actions))

\* one trigger has invoked its event twice, a handler was installed in between,
\* and the second invocation ran an action of the new handler
C22_Witness ==
    /\ Len(invocations) = 2
    /\ invocations[1].trigger = invocations[2].trigger
    /\ invocations[1].handler # invocations[2].handler
    /\ invocations[2].handler = events[triggers[invocations[2].trigger].eventName]
    /\ invocations[1].calls # <<>>
    /\ invocations[2].calls # <<>>

\* C23: the event a trigger instance names is in the Event Registry from the
\* state in which the scan has created the trigger (ensureEvent comes first in
\* the loop body) and in every later state, since no step takes a name out of
\* the registry; so the lookup of an invocation always finds a handler
C23_TriggerEventStaysRegistered ==
    /\ [](\A tid \in 1..Len(triggers) :
            /\ hasEvent(events, triggers[tid].eventName)
            /\ getEvent(Reg, triggers[tid].eventName) \in 1..Len(handlers))
    /\ [][\A n \in DOMAIN events : n \in DOMAIN events']_vars

\* a trigger whose event no action names has invoked the event, after the
\* handler the scan created for it was replaced
C23_Witness ==
    /\ Len(tree) = 1
    /\ invocations # <<>>
    /\ invocations[1].handler > 1
    /\ handlers[1].eventName = triggers[invocations[1].trigger].eventName
    /\ handlers[1].kind = "default"

\* the attribute values that are empty or hold white space
NotIdentifierLike == {"", " ", "my event", "two words"}

\* C24: every name in the Event Registry is a non-empty token without white
\* space, whatever the values of the scanned binding attributes are
C24_EventNamesAreIdentifiers ==
    \A n \in DOMAIN events : n \notin NotIdentifierLike

\* how often action instances of the attribute at a's place are in a handler's list
EntriesAt(hid, a) ==
    Cardinality({k \in 1..Len(handlers[hid].actions) :
                    handlers[hid].actions[k] \in InstancesAt(actions, a)})

\* C25: a second run of the scan over the unchanged tree makes every resolvable
\* trigger and action once more: each resolvable binding attribute then has two
\* instances, the action list of its event holds two entries for each action
\* attribute, and one occurrence on a trigger element starts two invocations of
\* its event
C25_SecondScanDuplicatesBindings ==
    /\ [](scans = 2 =>
            \A b \in ResolvedBindings :
               IF b.name[1] = NsTrigger
               THEN /\ Cardinality(InstancesAt(triggers, b)) = 2
                    /\ \A t \in InstancesAt(triggers, b) : triggers[t].eventName = b.value
               ELSE /\ Cardinality(InstancesAt(actions, b)) = 2
                    /\ EntriesAt(events[b.value], b) = 2)
    /\ [](scans = 2 =>
            \A el \in 1..Len(tree) :
               Len(Listeners(el, "TriggerClick"))
                  = Cardinality({b \in ResolvedBindings :
                                    b.element = el /\ b.name = Name2(NsTrigger, "click")}) * 2)
    /\ [][(scans = 2 /\ occurrences = <<>> /\ occurrences' # <<>>) =>
            LET L == occurrences'[1].listeners
            IN  /\ Len(L) = 2
                /\ triggers[L[1]].eventName = triggers[L[2]].eventName
                /\ triggers[L[1]].scan = 1
                /\ triggers[L[2]].scan = 2]_vars
    /\ []((occurrences # <<>> /\ ~InDispatch) =>
            /\ Len(invocations) = Len(occurrences[1].listeners)
            /\ \A j \in 1..Len(invocations) :
                  /\ invocations[j].trigger = occurrences[1].listeners[j]
                  /\ invocations[j].element = occurrences[1].element
                  /\ invocations[j].handler = invocations[1].handler)
    /\ [][(scans = 2 /\ Len(invocations') > Len(invocations)) =>
            /\ Len(invocations') = Len(invocations) + 1
            /\ ~MicrotaskQueued
            /\ InDispatch' <=> invocations = <<>>]_vars

\* after the second scan one click has started two invocations, and each has
\* called the action of the page's one action attribute twice
C25_Witness ==
    /\ scans = 2
    /\ Len(invocations) = 2
    /\ KindOf(1) = "default"
    /\ Len(invocations[1].calls) = 2
    /\ Len(invocations[2].calls) = 2
    /\ actions[invocations[1].calls[1].action].index = actions[invocations[1].calls[2].action].index
    /\ actions[invocations[1].calls[1].action].element = actions[invocations[1].calls[2].action].element
(***************************************************************************)
(* A handler replaced in flight                                            *)
(***************************************************************************)
\* the event of invocation v has another handler than the one v runs on
ReplacedInFlight(v) ==
    events[handlers[invocations[v].handler].eventName] # invocations[v].handler

\* invocation v has come to the end of its list; an invocation that an action
\* threw out of has not
Ended(v) == invocations[v].status \in {"completed", "returned"}

\* C26 as stated: an invocation whose event had registerEvent called for it while
\* the invocation was in flight does not visit exactly the actions that were
\* registered when it started. The code of registerEvent is not in the
\* repository: with registerEvent as the map set that is modelled here this
\* statement fails; with registerEventClearingOld it holds of the invocations
\* the registration comes to before their last action
C26_ReplacingCorruptsTheIteration ==
    \A v \in 1..Len(invocations) :
       (ReplacedInFlight(v) /\ Ended(v)) => Called(v) # invocations[v].started

\* C26 with registerEvent as a map set: the list the in-flight invocation
\* iterates stays as it was; the invocation calls the actions registered when it
\* started, in order, and all of them unless one of them throws
C26_ReplacingLeavesTheIteration ==
    \A v \in 1..Len(invocations) :
       ReplacedInFlight(v) =>
          /\ handlers[invocations[v].handler].actions = invocations[v].started
          /\ IsPrefix(Called(v), invocations[v].started)
          /\ Ended(v) => Called(v) = invocations[v].started

\* a sequential invocation whose event was given another handler while it was
\* suspended has called both actions it started with
C26_Witness ==
    \E v \in 1..Len(invocations) :
       /\ ReplacedInFlight(v)
       /\ handlers[invocations[v].handler].kind = "sequential"
       /\ invocations[v].status = "completed"
       /\ Len(invocations[v].started) = 2
       /\ Called(v) = invocations[v].started

(***************************************************************************)
(* Invocations of one event that overlap                                   *)
(***************************************************************************)
\* invocation v is suspended on a call that has not settled
Suspended(v) ==
    /\ invocations[v].status = "awaiting"
    /\ invocations[v].calls[Len(invocations[v].calls)].result = "pending"

\* C27: an invocation started on a sequential handler while an earlier invocation
\* on that handler is suspended calls the first action in the step that starts
\* it; nothing makes it wait for the earlier one
C27_SequentialInvocationsAreNotSerialized ==
    [][Len(invocations') > Len(invocations) =>
         ((/\ handlers[Started.handler].kind = "sequential"
           /\ Started.started # <<>>
           /\ \E v \in 1..Len(invocations) :
                 invocations[v].handler = Started.handler /\ Suspended(v))
          => /\ Started.calls # <<>>
             /\ Started.calls[1].action = Started.started[1])]_vars

\* two invocations on one sequential handler are suspended on the same action
C27_Witness ==
    /\ Len(invocations) = 2
    /\ invocations[1].handler = invocations[2].handler
    /\ handlers[invocations[1].handler].kind = "sequential"
    /\ Suspended(1)
    /\ Suspended(2)
    /\ invocations[1].calls[Len(invocations[1].calls)].action
         = invocations[2].calls[Len(invocations[2].calls)].action

(***************************************************************************)
(* Actions appended in flight                                              *)
(***************************************************************************)
\* the list of the handler invocation v runs on, before and after the step
ListOf(v) == handlers[invocations[v].handler].actions

ListAfter(v) == handlers'[invocations'[v].handler].actions

CalledAfter(v) == [k \in 1..Len(invocations'[v].calls) |-> invocations'[v].calls[k].action]

\* a sequential invocation that comes to its end has called every action of its
\* handler's list as the list is then, the actions appended in flight included
SequentialCallsAppended ==
    \A v \in 1..Len(invocations) :
       (invocations[v].status = "awaiting" /\ invocations'[v].status = "completed")
          => CalledAfter(v) = ListAfter(v)

\* a default invocation calls the actions of the list as it was at the start of
\* the loop, and not the action appended to the list by one of them
DefaultSkipsAppended ==
    (Len(invocations') > Len(invocations) /\ handlers[Started.handler].kind = "default")
       => /\ IsPrefix(CalledAfter(Len(invocations')), Started.started)
          /\ Started.status = "returned"
                => CalledAfter(Len(invocations')) = Started.started
          /\ \A a \in (Len(actions) + 1)..Len(actions') :
                /\ \E k \in 1..Len(ListAfter(Len(invocations'))) :
                      ListAfter(Len(invocations'))[k] = a
                /\ \A k \in 1..Len(Started.calls) : Started.calls[k].action # a

\* an invocation starts on the whole list of that moment
LaterInvocationsStartOnTheList ==
    Len(invocations') > Len(invocations)
       => /\ Started.started = handlers[Started.handler].actions
          /\ Started.started # <<>> => Started.calls[1].action = Started.started[1]

\* C28: an action appended to the list in flight is called by the in-progress
\* invocation under the sequential handler and not under the default handler,
\* and it is in the range of every invocation that starts later
C28_AppendedActionInFlight ==
    /\ [][SequentialCallsAppended]_vars
    /\ [][DefaultSkipsAppended]_vars
    /\ [][LaterInvocationsStartOnTheList]_vars

\* the first default invocation returned without calling the action appended by
\* its own action, and the second has called it
C28_Witness ==
    /\ Len(invocations) = 2
    /\ handlers[invocations[1].handler].kind = "default"
    /\ invocations[2].handler = invocations[1].handler
    /\ invocations[1].status = "returned"
    /\ Called(1) = invocations[1].started
    /\ invocations[2].status = "returned"
    /\ Called(2) = ListOf(2)
    /\ Len(Called(2)) = Len(Called(1)) + 1
    /\ actions[Called(2)[Len(Called(2))]].element = NoElement

(***************************************************************************)
(* Chained and cyclic events                                               *)
(***************************************************************************)
\* call i of occurrence o is an ActionClick on an element with click listeners
ClicksListeners(o, i) ==
    LET e == occurrences[o].trace[i]
    IN  /\ actions[e.action].ctor = "ActionClick"
        /\ actions[e.action].element # NoElement
        /\ Listeners(actions[e.action].element, "TriggerClick") # <<>>

\* the events fired by call i of occurrence o
FiredBy(o, i) ==
    LET L == Listeners(actions[occurrences[o].trace[i].action].element, "TriggerClick")
    IN  {triggers[L[j]].eventName : j \in 1..Len(L)}

\* an action's effect fires a trigger of an event that is being invoked
ReFires(o) ==
    \E i \in 1..Len(occurrences[o].trace) :
       /\ ClicksListeners(o, i)
       /\ \E n \in FiredBy(o, i) :
             \E j \in 1..Len(occurrences[o].trace[i].path) :
                occurrences[o].trace[i].path[j] = n

\* the call at depth d inside which call i of occurrence o is made
Enclosing(o, i, d) ==
    LET tr == occurrences[o].trace
    IN  CHOOSE j \in 1..(i - 1) :
           /\ tr[j].depth = d
           /\ \A k \in (j + 1)..(i - 1) : tr[k].depth > d

\* the elements whose click() is in progress when call i of occurrence o is made
InProgress(o, i) ==
    {actions[occurrences[o].trace[Enclosing(o, i, d)].action].element :
        d \in 1..(occurrences[o].trace[i].depth - 1)}

\* the click of call i runs the first action of the first listener's event as
\* the next call, one level deeper
RunsNested(o, i) ==
    LET tr == occurrences[o].trace
        L  == Listeners(actions[tr[i].action].element, "TriggerClick")
        n  == triggers[L[1]].eventName
        b  == handlers[events[n]].actions
    IN  b # <<>>
           => /\ i < Len(tr)
              /\ tr[i + 1].depth = tr[i].depth + 1
              /\ tr[i + 1].path = Append(tr[i].path, n)
              /\ tr[i + 1].action = b[1]

\* the click of call i runs nothing: the next call is not nested in it
ReturnsAtOnce(o, i) ==
    LET tr == occurrences[o].trace
    IN  i < Len(tr) => tr[i + 1].depth <= tr[i].depth

\* the occurrence has returned to the platform
Returned(o) == occurrences[o].status \in {"returned", "threw"}

\* the elements a click action clicks
Clicked == {actions[a].element : a \in {x \in 1..Len(actions) : actions[x].ctor = "ActionClick"}}

\* the statement that a cyclic chain re-invokes its event without bound: without
\* re-firing an occurrence ends and its nesting is no deeper than the number of
\* events; the actions of a chained event are called inside the call of the
\* action that clicks their trigger; when an event being invoked is fired again
\* the occurrence does not end
C29_ChainsNestAndCyclesDoNotEnd ==
    \A o \in 1..Len(occurrences) :
       /\ ~ReFires(o) =>
             /\ Returned(o)
             /\ \A i \in 1..Len(occurrences[o].trace) :
                   occurrences[o].trace[i].depth <= Cardinality(DOMAIN events)
       /\ \A i \in 1..Len(occurrences[o].trace) :
             ClicksListeners(o, i) => RunsNested(o, i)
       /\ ReFires(o) => ~Returned(o)

\* C29: on pages whose actions re-fire triggers by ActionClick only, that is by
\* element.click(), every occurrence ends, whatever each call of another action
\* does; without re-firing its nesting is no deeper than the number of events;
\* the actions of a chained event are called inside the call of the action that
\* clicks their trigger, also when that event is being invoked already (the
\* engine has no guard); a click action on an element whose click() is in
\* progress runs nothing, so the nesting of a cyclic chain is no deeper than one
\* more than the number of clicked elements
C29_ChainsNestAndCyclesEnd ==
    \A o \in 1..Len(occurrences) :
       /\ Returned(o)
       /\ ~ReFires(o) =>
             \A i \in 1..Len(occurrences[o].trace) :
                occurrences[o].trace[i].depth <= Cardinality(DOMAIN events)
       /\ \A i \in 1..Len(occurrences[o].trace) :
             /\ occurrences[o].trace[i].depth <= Cardinality(Clicked) + 1
             /\ ClicksListeners(o, i) =>
                   IF actions[occurrences[o].trace[i].action].element \in InProgress(o, i)
                   THEN ReturnsAtOnce(o, i)
                   ELSE RunsNested(o, i)

\* one click on an element that is click trigger and click action of one event:
\* the event is invoked once more inside its own invocation, and the click of
\* the inner call returns at once
C29_Witness ==
    \E o \in 1..Len(occurrences) :
       /\ Returned(o)
       /\ ReFires(o)
       /\ Len(occurrences[o].trace) = 2
       /\ \A i \in 1..2 :
             /\ occurrences[o].trace[i].depth = i
             /\ occurrences[o].trace[i].path = [j \in 1..i |-> "go"]
             /\ actions[occurrences[o].trace[i].action].element = occurrences[o].element
       /\ InProgress(o, 2) = {occurrences[o].element}

(***************************************************************************)
(* A binding that throws during the scan                                   *)
(***************************************************************************)
EmptyRegistry == Registry(<< >>, <<>>, <<>>, <<>>, <<>>)

\* the faults of the scan that has run
ScanFaults == {f \in uncaught : "at" \in DOMAIN f}

\* the registry a scan leaves after the first n triggers and the first m actions
ScannedUpTo(n, m) ==
    ProcessActions(
        ProcessTriggers(EmptyRegistry, triggerTypes, tree,
                        SubSeq(triggerElements(tree), 1, n), 1, 1),
        actionTypes, SubSeq(actionElements(tree), 1, m), 1, 1)

\* the instances that were wired and registered
Wired(ts) == SelectSeq(ts, LAMBDA r : r.listening)

\* C30: when the k-th trigger throws, the triggers before it are wired as a scan
\* wires them, no trigger after it is instantiated and no action at all is
\* instantiated or registered; when the k-th action throws, every trigger is
\* wired, the actions before it are registered as a scan registers them and no
\* action after it is instantiated; registered events stay registered
C30_ThrowingBindingStopsTheScan ==
    scans > 0 =>
       /\ ScanFaults = {} => Reg = ScannedUpTo(Len(triggerElements(tree)),
                                               Len(actionElements(tree)))
       /\ \A f \in ScanFaults :
             LET before == IF f.ns = NsTrigger
                           THEN ScannedUpTo(f.k - 1, 0)
                           ELSE ScannedUpTo(Len(triggerElements(tree)), f.k - 1)
             IN  /\ IsPrefix(before.triggers, triggers)
                 /\ IsPrefix(before.actions, actions)
                 /\ Len(triggers) <= Len(before.triggers) + (IF f.ns = NsTrigger THEN 1 ELSE 0)
                 /\ Len(actions) <= Len(before.actions) + (IF f.ns = NsAction THEN 1 ELSE 0)
                 /\ DOMAIN before.events \subseteq DOMAIN events
                 /\ \A n \in DOMAIN before.events :
                       handlers[events[n]].actions = before.handlers[before.events[n]].actions
                 /\ \A h \in 1..Len(handlers) :
                       \A i \in 1..Len(handlers[h].actions) :
                          handlers[h].actions[i] <= Len(before.actions)
                 /\ f.ns = NsTrigger =>
                       /\ \A h \in 1..Len(handlers) : handlers[h].actions = <<>>
                       /\ actions = <<>>

\* the second trigger of a page threw: the first is wired and has fired, its
\* event has no action though the page has actions for it
C30_Witness ==
    /\ \E f \in ScanFaults : f.ns = NsTrigger /\ f.k = 2
    /\ Len(Wired(triggers)) = 1
    /\ actionElements(tree) # <<>>
    /\ actions = <<>>
    /\ Len(invocations) = 1
    /\ invocations[1].calls = <<>>

(***************************************************************************)
(* The submit payload                                                      *)
(***************************************************************************)
\* the values of the non-file controls named name, in form order
ValuesOf(el, name) ==
    LET kept == SelectSeq(el.inputs, LAMBDA i : ~i.file /\ i.name = name)
    IN  [k \in 1..Len(kept) |-> kept[k].value]

FieldNames(el) == {el.inputs[k].name : k \in {i \in 1..Len(el.inputs) : ~el.inputs[i].file}}

\* fields holds every non-file value: the value itself, or the list of the
\* values of a repeated name
HoldsTheFormValues(fields, el) ==
    /\ DOMAIN fields = FieldNames(el)
    /\ \A name \in FieldNames(el) :
          IF Len(ValuesOf(el, name)) = 1
          THEN fields[name] = [value |-> ValuesOf(el, name)[1]]
          ELSE fields[name] = [array |-> ValuesOf(el, name)]

\* headers has one entry per header attribute, and is undefined without any
HoldsTheHeaders(entry, el) ==
    IF HeaderAttrs(el) = {} THEN entry = [undefined |-> TRUE]
    ELSE /\ DOMAIN entry = {"headers"}
         /\ DOMAIN entry.headers = {StripPrefix(a.name, HeaderPrefix) : a \in HeaderAttrs(el)}
         /\ \A a \in HeaderAttrs(el) :
               entry.headers[StripPrefix(a.name, HeaderPrefix)] = a.value

\* C31: the payload of a submit trigger is the base data map, but for the keys
\* fields and headers, plus fields with every non-file value of the form (the
\* values of a repeated name as a list in form order) and headers with one entry
\* per header attribute
C31_SubmitPayload ==
    \A v \in 1..Len(invocations) :
       LET inv == invocations[v]
           el  == tree[inv.element]
       IN  triggers[inv.trigger].ctor = "TriggerSubmit" =>
              /\ ExactlyTheDataAttributes(inv.data, el, triggers[inv.trigger].attribute,
                                          {<<"fields">>, <<"headers">>})
              /\ DOMAIN inv.data[<<"fields">>] = {"fields"}
              /\ HoldsTheFormValues(inv.data[<<"fields">>].fields, el)
              /\ HoldsTheHeaders(inv.data[<<"headers">>], el)

(***************************************************************************)
(* The authorization header of the add-listing forms                       *)
(***************************************************************************)
AuthorizationName == Name4("trigger", "submit", "header", "authorization")

HasAuthorization(el) == \E k \in 1..Len(el.attrs) : el.attrs[k].name = AuthorizationName

\* the payload carries the header authorization with this value
CarriesAuthorization(data, value) ==
    /\ DOMAIN data[<<"headers">>] = {"headers"}
    /\ <<"authorization">> \in DOMAIN data[<<"headers">>].headers
    /\ data[<<"headers">>].headers[<<"authorization">>] = value

\* C32: the authorization attribute is on an element only after the scan and
\* after the token fetch has resolved with a token while the API requires auth;
\* writing it leaves the registries, the instances and the scan count alone; a
\* submit before it has no headers in its payload and every submit after it
\* carries Bearer <token>
C32_AuthorizationArrivesAfterTheToken ==
    /\ [](\A i \in 1..Len(tree) :
            HasAuthorization(tree[i]) =>
               /\ scans = 1
               /\ page.onLoad = "done"
               /\ Truthy(page.token)
               /\ api.apiRequiresAuth
               /\ i \in page.forms)
    /\ [][tree' # tree =>
            UNCHANGED <<events, handlers, triggers, actions, scans, invocations>>]_vars
    /\ [][Len(invocations') > Len(invocations) =>
            IF HasAuthorization(tree[Started.element])
            THEN CarriesAuthorization(Started.data, Bearer(page.token))
            ELSE Started.data[<<"headers">>] = [undefined |-> TRUE]]_vars
    /\ [](page.onLoad = "done" /\ Truthy(page.token) /\ api.apiRequiresAuth
            => \A i \in page.forms : HasAuthorization(tree[i]))

\* one form submitted before and after the token arrived, scanned once
C32_Witness ==
    /\ scans = 1
    /\ Len(invocations) = 2
    /\ invocations[1].trigger = invocations[2].trigger
    /\ invocations[1].data[<<"headers">>] = [undefined |-> TRUE]
    /\ CarriesAuthorization(invocations[2].data, Bearer("jwt"))

(***************************************************************************)
(* A submit trigger on an element that is not a form                       *)
(***************************************************************************)
\* the attributes trigger:submit of the elements that are not forms
MisplacedSubmits ==
    {a \in Attributes : a.name = Name2("trigger", "submit") /\ tree[a.element].tag # "form"}

\* C33: the scan makes one TriggerSubmit instance for a trigger:submit attribute
\* on an element that is not a form and registers its event; the instance has
\* no listener and no invocation ever comes from it
C33_SubmitOffAFormIsInert ==
    /\ [][scans' = scans + 1 =>
            \A a \in MisplacedSubmits :
               /\ a.value \in DOMAIN events'
               /\ Cardinality({t \in 1..Len(triggers') :
                                 /\ triggers'[t].element = a.element
                                 /\ triggers'[t].index = a.index
                                 /\ triggers'[t].ctor = "TriggerSubmit"
                                 /\ triggers'[t].eventName = a.value
                                 /\ ~triggers'[t].listening}) = 1]_vars
    /\ [](\A t \in 1..Len(triggers) :
            (triggers[t].ctor = "TriggerSubmit" /\ tree[triggers[t].element].tag # "form")
               => /\ ~triggers[t].listening
                  /\ triggers[t].eventName \in DOMAIN events
                  /\ \A v \in 1..Len(invocations) : invocations[v].trigger # t)

\* a button with trigger:submit and trigger:click: the click trigger has fired,
\* the submit trigger exists without a listener and its event is registered
C33_Witness ==
    /\ scans = 1
    /\ invocations # <<>>
    /\ \E t \in 1..Len(triggers) :
          /\ triggers[t].ctor = "TriggerSubmit"
          /\ tree[triggers[t].element].tag = "button"
          /\ ~triggers[t].listening
          /\ triggers[t].eventName \in DOMAIN events
          /\ triggers[invocations[1].trigger].element = triggers[t].element


(***************************************************************************)
(* The page and the Type Registry changing after initialize(): elements    *)
(* with binding attributes appended to the document and binding types      *)
(* registered once the scan has run, occurrences on the wired triggers,    *)
(* and a second call of the scan.                                          *)
(***************************************************************************)
\* an engine that scans again whenever the document or the Type Registry changes
afterScanObserving(reg, tTypes, aTypes, t, scan) ==
    initializeFIX(reg, tTypes, aTypes, t, scan)

\* the engine once initializeFIX has returned: the scan read the document and
\* the Type Registry as they were when it was called, it left no observer on
\* either, and registerTrigger/registerAction only set a map entry
afterScan(reg, tTypes, aTypes, t, scan) == reg

LatePages ==
    { <<TriggerButton, ActionDiv("click", "go")>>,
      <<TriggerButton, ActionDiv("nope", "go")>> }

\* the elements a script appends to the document after the scan
LateElements ==
    { Element("span", <<Attr(Name2("action", "set-status"), "go")>>, <<>>),
      Element("a", <<Attr(Name2("trigger", "click"), "e2")>>, <<>>) }

\* the binding types a script registers after the scan
LateTypes ==
    { [ns |-> NsAction, name |-> "nope", ctor |-> "ActionSetStatus"],
      [ns |-> NsTrigger, name |-> "hover", ctor |-> "TriggerClick"] }

InitLate ==
    /\ tree \in LatePages
    /\ triggerTypes = LoadedTriggerTypes
    /\ actionTypes = LoadedActionTypes
    /\ events = << >>
    /\ handlers = <<>>
    /\ triggers = <<>>
    /\ actions = <<>>
    /\ warnings = <<>>
    /\ scans = 0
    /\ invocations = <<>>
    /\ uncaught = {}
    /\ load = NotLoaded
    /\ NoComponents

\* document.body.appendChild(el) after initialize()
AppendLate(el) ==
    /\ scans = 1
    /\ el \notin Range(tree)
    /\ tree' = Append(tree, el)
    /\ SetReg(afterScan(Reg, triggerTypes, actionTypes, tree', scans))
    /\ UNCHANGED <<triggerTypes, actionTypes, scans, invocations, uncaught,
                   hostVars>>

\* registerTriggerType / registerActionType after initialize()
RegisterLate(type) ==
    /\ scans = 1
    /\ triggerTypes' = IF type.ns = NsTrigger
                       THEN registerType(triggerTypes, type.name, type.ctor)
                       ELSE triggerTypes
    /\ actionTypes' = IF type.ns = NsAction
                      THEN registerType(actionTypes, type.name, type.ctor)
                      ELSE actionTypes
    /\ <<triggerTypes', actionTypes'>> # <<triggerTypes, actionTypes>>
    /\ SetReg(afterScan(Reg, triggerTypes', actionTypes', tree, scans))
    /\ UNCHANGED <<tree, scans, invocations, uncaught, hostVars>>

\* a platform occurrence on a wired trigger, before or after the changes
Occur(tid) ==
    /\ Len(invocations) < MaxInvocations
    /\ Invoke(tid)

NextLate ==
    \/ Initialize
    \/ \E el \in LateElements : AppendLate(el)
    \/ \E type \in LateTypes : RegisterLate(type)
    \/ \E tid \in 1..Len(triggers) : Occur(tid)
    \/ Reinitialize

SpecLate == InitLate /\ [][NextLate]_vars

\* the engine's wiring: the Event Registry, the handlers with their action
\* lists, and the trigger and action instances
Wiring == <<events, handlers, triggers, actions>>

\* the bindings of the document whose type is registered
KnownTriggers ==
    {k \in 1..Len(triggerElements(tree)) :
        At(Split(triggerElements(tree)[k].attribute), 1) \in DOMAIN triggerTypes}

KnownActions ==
    {k \in 1..Len(actionElements(tree)) :
        At(Split(actionElements(tree)[k].attribute), 1) \in DOMAIN actionTypes}

\* binding k of the document has an instance made by scan n
TriggerWiredBy(k, n, ts) ==
    \E i \in 1..Len(ts) :
       /\ ts[i].element = triggerElements(tree)[k].element
       /\ ts[i].index = triggerElements(tree)[k].index
       /\ ts[i].scan = n

ActionWiredBy(k, n, as, hs, ev) ==
    \E i \in 1..Len(as) :
       /\ as[i].element = actionElements(tree)[k].element
       /\ as[i].index = actionElements(tree)[k].index
       /\ as[i].scan = n
       /\ actionElements(tree)[k].eventName \in DOMAIN ev
       /\ \E j \in 1..Len(hs[ev[actionElements(tree)[k].eventName]].actions) :
             hs[ev[actionElements(tree)[k].eventName]].actions[j] = i

\* a binding of the document nothing is wired for
Unwired ==
    \/ \E k \in KnownTriggers : \A n \in 1..scans : ~TriggerWiredBy(k, n, triggers)
    \/ \E k \in KnownActions :
          \A n \in 1..scans : ~ActionWiredBy(k, n, actions, handlers, events)

\* a change of the document or of the Type Registry after the scan leaves the
\* wiring as it is
LateChangeLeavesWiring ==
    [][(scans >= 1 /\ <<tree, triggerTypes, actionTypes>>' # <<tree, triggerTypes, actionTypes>>)
          => UNCHANGED Wiring]_vars

\* the wiring changes in a run of the scan only
OnlyAScanWires == [][Wiring' # Wiring => scans' = scans + 1]_vars

\* the next run of the scan wires every binding the document then has
ScanAgainWires ==
    [][scans' = scans + 1
          => /\ \A k \in KnownTriggers : TriggerWiredBy(k, scans', triggers')
             /\ \A k \in KnownActions :
                   ActionWiredBy(k, scans', actions', handlers', events')]_vars

\* C34: adding an element with binding attributes, or registering a binding
\* type, after initialize() leaves the Event Registry, the action lists and the
\* trigger instances unchanged; nothing is wired for them until the scan runs
\* again, and that scan wires them
C34_LateBindingsWaitForAScan ==
    /\ LateChangeLeavesWiring
    /\ OnlyAScanWires
    /\ ScanAgainWires

\* a scanned page holding an appended binding and a late-registered type, both
\* unwired, on which an occurrence has run the event the appended action names
C34_Witness ==
    /\ scans = 1
    /\ Len(tree) = 3
    /\ tree[3].tag = "span"
    /\ "nope" \in DOMAIN actionTypes
    /\ \E k \in KnownActions :
          /\ actionElements(tree)[k].element = 3
          /\ \A i \in 1..Len(actions) : actions[i].element # 3
    /\ \E k \in KnownActions :
          /\ At(Split(actionElements(tree)[k].attribute), 1) = "nope"
          /\ \A i \in 1..Len(actions) : actions[i].element # actionElements(tree)[k].element
    /\ Unwired
    /\ \E v \in 1..Len(invocations) : handlers[invocations[v].handler].eventName = "go"


(***************************************************************************)
(* WebflowSlider: slide navigation, change callbacks and the autoplay      *)
(* interval timer.  A slider is [slides, currentSlide, autoplayInterval,   *)
(* autoplayDelay, autoplay (data-autoplay="true"), changeCallbacks (how    *)
(* many are registered)]; timers is the set of interval handles active in  *)
(* the window, handles the last handle setInterval returned, and called    *)
(* the callback calls made by the last navigation.                         *)
(***************************************************************************)
MaxSlides == 2

MaxCallbacks == 2

MaxHandles == 3

\* JavaScript's <, >=, !==, + and % on numbers
Lt(a, b) == ~a.nan /\ ~b.nan /\ a.v < b.v

Ge(a, b) == ~a.nan /\ ~b.nan /\ a.v >= b.v

StrictNe(a, b) == a.nan \/ b.nan \/ a.v # b.v

Plus(a, b) == IF a.nan \/ b.nan THEN NaN ELSE Num(a.v + b.v)

Rem(a, b) ==
    IF a.nan \/ b.nan \/ b.v = 0 THEN NaN
    ELSE LET d == IF b.v < 0 THEN 0 - b.v ELSE b.v
         IN  IF a.v >= 0 THEN Num(a.v % d) ELSE Num(0 - ((0 - a.v) % d))

\* if (this.autoplayInterval): neither null nor 0
Running(handle) == DOMAIN handle = {"id"} /\ handle.id # 0

\* goToSlide(index)
goToSlide(s, index) ==
    IF Lt(index, Num(0)) \/ Ge(index, Num(s.slides))
    THEN [s EXCEPT !.called = <<>>]
    ELSE LET previousSlide == s.currentSlide
         IN  [s EXCEPT !.currentSlide = index,
                       !.called = IF StrictNe(previousSlide, index)
                                  THEN [c \in 1..s.changeCallbacks |->
                                           [callback |-> c, index |-> index]]
                                  ELSE <<>>]

\* nextSlide()
nextSlide(s) == goToSlide(s, Rem(Plus(s.currentSlide, Num(1)), Num(s.slides)))

\* prevSlide()
prevSlide(s) ==
    goToSlide(s, IF ~StrictNe(s.currentSlide, Num(0)) THEN Num(s.slides - 1)
                 ELSE Plus(s.currentSlide, Num(0 - 1)))

\* a play that starts a new interval without clearing the one that runs
playKeeping(s, delay) ==
    [s EXCEPT !.autoplayDelay = IF delay # 0 THEN Num(delay) ELSE @,
              !.timers = @ \cup {s.handles + 1},
              !.autoplayInterval = [id |-> s.handles + 1],
              !.handles = @ + 1]

\* play(delay): delay 0 stands for a call without the argument
play(s, delay) ==
    [s EXCEPT !.autoplayDelay = IF delay # 0 THEN Num(delay) ELSE @,
              !.timers = (IF Running(s.autoplayInterval)
                          THEN @ \ {s.autoplayInterval.id} ELSE @)
                         \cup {s.handles + 1},
              !.autoplayInterval = [id |-> s.handles + 1],
              !.handles = @ + 1]

\* pause()
pause(s) ==
    IF Running(s.autoplayInterval)
    THEN [s EXCEPT !.timers = @ \ {s.autoplayInterval.id}, !.autoplayInterval = Null]
    ELSE s

\* isPlaying()
isPlaying(s) == s.autoplayInterval # Null

\* the value of an attribute: a string is the sequence of its UTF-16 code units
Chars(string) == [chars |-> string]

\* parseInt(string, 10): leading StrWhiteSpaceChar code units are trimmed, then
\* one sign ("+" is 43, "-" is 45) is taken, then the longest run of decimal
\* digits ("0" is 48) is read; NaN when there is no digit. StrWhiteSpaceChar is
\* WhiteSpace (TAB, VT, FF, ZWNBSP and the space separators SP, NBSP, U+1680,
\* U+2000 to U+200A, U+202F, U+205F, U+3000) and LineTerminator (LF, CR,
\* U+2028, U+2029)
parseInt(string) ==
    LET StrWhiteSpaceChar ==
            {9, 11, 12, 32, 160, 5760, 8239, 8287, 12288, 65279} \cup (8192..8202)
                \cup {10, 13, 8232, 8233}
        RECURSIVE skip(_)
        skip(i) == IF i <= Len(string) /\ string[i] \in StrWhiteSpaceChar
                   THEN skip(i + 1) ELSE i
        IsDigit(i) == i <= Len(string) /\ string[i] \in 48..57
        RECURSIVE last(_)
        last(i) == IF IsDigit(i + 1) THEN last(i + 1) ELSE i
        RECURSIVE value(_, _)
        value(a, b) ==
            IF b < a THEN 0 ELSE value(a, b - 1) * 10 + (string[b] - 48)
        start == skip(1)
        sign  == start <= Len(string) /\ string[start] \in {43, 45}
        first == IF sign THEN start + 1 ELSE start
        end   == last(first - 1)
    IN  IF end < first THEN NaN
        ELSE IF sign /\ string[start] = 45 THEN Num(0 - value(first, end))
        ELSE Num(value(first, end))

\* WebflowSlider.validate(element), which the base constructor calls first: the element has
\* the class w-slider and contains a .w-slider-mask, else it throws
validateSlider(hasClass, hasMask) == hasClass /\ hasMask

\* new WebflowSlider(element): activeIndex is the findIndex of .w-active,
\* autoplayAttr tells that data-autoplay is "true", delay is data-delay (Null
\* without the attribute)
WebflowSlider(hasClass, hasMask, slides, activeIndex, autoplayAttr, delay) ==
    IF ~validateSlider(hasClass, hasMask) THEN [NoSlider EXCEPT !.threw = TRUE]
    ELSE LET s == [NoSlider EXCEPT
                      !.constructed = TRUE,
                      !.slides = slides,
                      !.currentSlide = IF activeIndex >= 0 THEN Num(activeIndex)
                                       ELSE Num(0),
                      !.autoplay = autoplayAttr,
                      !.autoplayDelay = IF autoplayAttr /\ delay # Null /\ delay.chars # <<>>
                                        THEN parseInt(delay.chars) ELSE @]
         IN  IF autoplayAttr THEN play(s, 0) ELSE s

\* the values of data-delay the pages carry: no attribute, "", "2000", "0",
\* "1500ms", "-5", "abc", " 12" and "2000" after each of VT, NBSP, ZWNBSP and
\* U+2028
Delays ==
    {Null, Chars(<<>>), Chars(<<50, 48, 48, 48>>), Chars(<<48>>),
     Chars(<<49, 53, 48, 48, 109, 115>>), Chars(<<45, 53>>),
     Chars(<<97, 98, 99>>), Chars(<<32, 49, 50>>)}
        \cup {Chars(<<space, 50, 48, 48, 48>>) : space \in {11, 160, 65279, 8232}}

sliderIdle == UNCHANGED <<engineVars, load, formVars, api, occurrences, page>>

InitSlider ==
    /\ tree = <<>>
    /\ triggerTypes = LoadedTriggerTypes
    /\ actionTypes = LoadedActionTypes
    /\ events = << >>
    /\ handlers = <<>>
    /\ triggers = <<>>
    /\ actions = <<>>
    /\ warnings = <<>>
    /\ scans = 0
    /\ invocations = <<>>
    /\ uncaught = {}
    /\ load = NotLoaded
    /\ form = NoForm
    /\ submissions = <<>>
    /\ api = NoApi
    /\ occurrences = <<>>
    /\ page = NoPage
    /\ \E hasClass, hasMask, autoplayAttr \in BOOLEAN, slides \in 0..MaxSlides,
          delay \in Delays :
          \E activeIndex \in {0 - 1} \cup (0..slides - 1) :
             slider = WebflowSlider(hasClass, hasMask, slides, activeIndex, autoplayAttr,
                                    delay)

\* slider.goToSlide(index), or a click on dot index
GoToSlide(index) ==
    /\ slider.constructed
    /\ slider' = goToSlide(slider, index)
    /\ sliderIdle

\* slider.nextSlide(), or a click on the right arrow
NextSlide ==
    /\ slider.constructed
    /\ slider' = nextSlide(slider)
    /\ sliderIdle

\* slider.prevSlide(), or a click on the left arrow
PrevSlide ==
    /\ slider.constructed
    /\ slider' = prevSlide(slider)
    /\ sliderIdle

\* the interval timer with this handle fires: () => this.nextSlide()
Tick(handle) ==
    /\ slider.constructed
    /\ handle \in slider.timers
    /\ slider' = nextSlide(slider)
    /\ sliderIdle

\* slider.onSlideChange(callback)
OnSlideChange ==
    /\ slider.constructed
    /\ slider.changeCallbacks < MaxCallbacks
    /\ slider' = [slider EXCEPT !.changeCallbacks = @ + 1]
    /\ sliderIdle

\* slider.play(delay)
Play(delay) ==
    /\ slider.constructed
    /\ slider.handles < MaxHandles
    /\ slider' = play(slider, delay)
    /\ sliderIdle

\* slider.pause()
Pause ==
    /\ slider.constructed
    /\ slider' = pause(slider)
    /\ sliderIdle

\* the mouseenter listener
MouseEnter ==
    /\ slider.constructed
    /\ slider' = IF Running(slider.autoplayInterval) THEN pause(slider) ELSE slider
    /\ sliderIdle

\* the mouseleave listener
MouseLeave ==
    /\ slider.constructed
    /\ slider.autoplay => slider.handles < MaxHandles
    /\ slider' = IF slider.autoplay THEN play(slider, 0) ELSE slider
    /\ sliderIdle

\* the indexes scripts and dots pass to goToSlide
Indexes == {Num(i) : i \in (0 - 1)..MaxSlides}

NextSlider ==
    \/ \E index \in Indexes : GoToSlide(index)
    \/ NextSlide
    \/ PrevSlide
    \/ \E handle \in slider.timers : Tick(handle)
    \/ OnSlideChange
    \/ \E delay \in {0, 2000} : Play(delay)
    \/ Pause
    \/ MouseEnter
    \/ MouseLeave

SpecSlider == InitSlider /\ [][NextSlider]_vars

\* currentSlide is an index of a slide, or 0 on a slider without slides
ValidIndex ==
    /\ ~slider.currentSlide.nan
    /\ IF slider.slides >= 1 THEN slider.currentSlide.v \in 0..slider.slides - 1
       ELSE slider.currentSlide.v = 0

\* a step that navigates
Navigates ==
    \/ \E index \in Indexes : GoToSlide(index)
    \/ NextSlide
    \/ PrevSlide
    \/ \E handle \in slider.timers : Tick(handle)

\* every registered callback called once, in order, with the new index
AllCalled(s) ==
    [c \in 1..s.changeCallbacks |-> [callback |-> c, index |-> s.currentSlide]]

WrapsAround ==
    /\ [][(NextSlide /\ slider.slides >= 1 /\ slider.currentSlide = Num(slider.slides - 1))
             => slider'.currentSlide = Num(0)]_vars
    /\ [][(PrevSlide /\ slider.slides >= 1 /\ slider.currentSlide = Num(0))
             => slider'.currentSlide = Num(slider.slides - 1)]_vars

OutOfRangeIgnored ==
    [][\A index \in Indexes :
          (GoToSlide(index) /\ index.v \notin 0..slider.slides - 1)
             => slider'.currentSlide = slider.currentSlide]_vars

CallbacksOnChange ==
    [][Navigates
          => slider'.called = IF slider'.currentSlide # slider.currentSlide
                              THEN AllCalled(slider') ELSE <<>>]_vars

\* C35: after any sequence of goToSlide, nextSlide and prevSlide on a slider
\* with n >= 0 slides, currentSlide is an index in 0..n-1 (0 when n = 0);
\* nextSlide wraps from n-1 to 0 and prevSlide from 0 to n-1; a goToSlide
\* outside 0..n-1 leaves currentSlide as it is; and the change callbacks are
\* called exactly when the index changes
C35_CurrentSlideIsAnIndex ==
    /\ []ValidIndex
    /\ WrapsAround
    /\ OutOfRangeIgnored
    /\ CallbacksOnChange

\* the handle the slider holds is the one active timer, if any; no timer runs
\* without a slider
OneTimer ==
    /\ Cardinality(slider.timers) <= 1
    /\ ~slider.constructed => slider.timers = {}
    /\ isPlaying(slider) <=> slider.timers # {}
    /\ isPlaying(slider) => slider.timers = {slider.autoplayInterval.id}

PlayRestarts ==
    [][(\E delay \in {0, 2000} : Play(delay))
          => /\ slider'.timers \cap slider.timers = {}
             /\ Cardinality(slider'.timers) = 1
             /\ isPlaying(slider')]_vars

PauseClears == [][Pause => (slider'.timers = {} /\ ~isPlaying(slider'))]_vars

\* C36: at most one autoplay interval timer is active after any sequence of
\* play, pause, mouseenter and mouseleave; play clears a running timer before
\* it starts a new one, pause clears it, and isPlaying() is true exactly when a
\* timer is active
C36_AtMostOneAutoplayTimer ==
    /\ []OneTimer
    /\ PlayRestarts
    /\ PauseClears

\* a slider played again while it was playing: the third interval is the only
\* one active
C36_Witness ==
    /\ slider.handles = 3
    /\ slider.autoplay
    /\ slider.timers = {3}
    /\ isPlaying(slider)
    /\ slider.autoplayDelay = Num(2000)

====
